---- MODULE Spec2Model ----
(***************************************************************************)
(* Order-tracking reconciliation layer (shopify-track-prod).               *)
(*                                                                         *)
(* The module models                                                       *)
(*   - the tracking acquisition engine of src/services/trackingService.js  *)
(*     (getTrackingInfo with registerTracking, changeTrackingInfo,         *)
(*     fetchFrom17Track, detectLanguage, translateEvents),                 *)
(*   - the commerce lookups of src/get_token.js (getOrderByNameAndEmail,   *)
(*     processOrderData, findOrderByTrackingNumber, getMockOrder),         *)
(*   - the GET /proxy/track handler of src/server.js.                      *)
(*                                                                         *)
(* JavaScript objects are records whose DOMAIN holds the fields that are   *)
(* present; an absent value (undefined) of an optional sub-object is the   *)
(* empty sequence <<>> and a present one is the one-element sequence.      *)
(* Every action is the code that runs between two awaits.                  *)
(***************************************************************************)
EXTENDS Integers, Sequences, FiniteSets, TLC

VARIABLES
    TRACK17_KEY,    \* process.env.TRACK17_KEY: "" (unset), the placeholder, or a key
    registered,     \* carrier side: the tracking numbers the aggregator monitors
    catalogue,      \* carrier side: which accepted entries gettrackinfo may answer with
    task,           \* task[i]: one getTrackingInfo call (its position and locals)
    SHOPIFY_ACCESS_TOKEN,   \* process.env.SHOPIFY_ACCESS_TOKEN ("" when unset)
    SHOP_DOMAIN,    \* process.env.SHOPIFY_SHOP_DOMAIN ("" when unset)
    SHOPIFY_APP_SECRET,     \* process.env.SHOPIFY_APP_SECRET ("" when unset)
    shop,           \* the commerce lookup in flight (its position, arguments, result)
    handler         \* the GET /proxy/track request in flight

engineVars == <<TRACK17_KEY, registered, catalogue, task>>
shopVars == <<SHOPIFY_ACCESS_TOKEN, SHOP_DOMAIN, SHOPIFY_APP_SECRET, shop>>
vars == <<TRACK17_KEY, registered, catalogue, task, SHOPIFY_ACCESS_TOKEN, SHOP_DOMAIN,
          SHOPIFY_APP_SECRET, shop, handler>>

(***************************************************************************)
(* Bounds of the model.                                                    *)
(***************************************************************************)
MaxEvents == 2          \* events in one carrier payload
MaxFulfillments == 2    \* fulfillments of one order

\* one getTrackingInfo call per package of an order (the real ones and the synthetic one)
Tasks == 1..(MaxFulfillments + 1)

(***************************************************************************)
(* Program constants.                                                      *)
(***************************************************************************)
PLACEHOLDER_KEY == "YOUR_17TRACK_KEY_HERE"
MOCK_TRACKING == "TEST123_MOCK"
MOCK_ORDER_NAME == "#155420"
MOCK_ORDER_TRACKING == "YT2602400702022310"
ALREADY_REGISTERED == -18019903
SETTLE_MS == 500
waitTimes == <<1000, 2000, 2000>>

Has(o, f) == f \in DOMAIN o

(***************************************************************************)
(* Texts.  A text is a string standing for an event text; the character    *)
(* classes the code tests with regular expressions are given per text:     *)
(* "zh:..." holds a character of U+4E00..U+9FA5, "ru:..." a Cyrillic       *)
(* letter, "ko:..." a Hangul syllable, "ja:..." a Hiragana/Katakana one,   *)
(* "zh+ja:..." both an ideograph and a kana.                               *)
(***************************************************************************)
Texts == {"", " ", "Delivered", "Berlin", "zh:yiqianshou", "ru:dostavleno",
          "ko:baesong", "ja:haitatsu", "zh+ja:nimotsu-wo"}

\* text.trim() is a non-empty string
NonBlank(text) == text \notin {"", " "}

HasCJK(text) == text \in {"zh:yiqianshou", "zh+ja:nimotsu-wo"}
HasCyrillic(text) == text = "ru:dostavleno"
HasHangul(text) == text = "ko:baesong"
HasKana(text) == text \in {"ja:haitatsu", "zh+ja:nimotsu-wo"}

(***************************************************************************)
(* Carrier payloads (17TRACK v2.4 gettrackinfo).                           *)
(***************************************************************************)
RawEvents ==
    { [time_iso |-> "2026-01-20T10:00:00Z", time_utc |-> "2026-01-20 10:00",
       description |-> "Delivered", location |-> "Berlin"],
      [time_utc |-> "2026-01-19 08:00", description |-> "zh:yiqianshou"] }

RECURSIVE SeqsUpTo(_, _)
SeqsUpTo(S, n) ==
    IF n = 0 THEN {<<>>}
    ELSE LET shorter == SeqsUpTo(S, n - 1)
         IN shorter \cup {Append(q, e) : q \in {r \in shorter : Len(r) = n - 1}, e \in S}

RawEventSeqs == SeqsUpTo(RawEvents, MaxEvents)

Providers ==
    { [name |-> "DHL", alias |-> "DHL Express", key |-> "100001"],
      [alias |-> "YunExpress", key |-> "190008"],
      [key |-> "21051"] }

LatestStatuses ==
    { [status |-> "Delivered", status_description |-> "Delivered to recipient"],
      [status |-> "InTransit"] }

\* Modern shape: tracking.providers[0] holds events[] and the provider object.
\* Every provider and status comes with at most one event, and the longer event
\* lists with one provider and status.
ModernTracks ==
    { [tracking |-> [providers |-> <<[events |-> evs, provider |-> p]>>],
       latest_status |-> st] :
          evs \in SeqsUpTo(RawEvents, 1), p \in Providers, st \in LatestStatuses }
    \cup { [tracking |-> [providers |-> <<[events |-> evs,
                                            provider |-> [name |-> "DHL"]]>>],
             latest_status |-> [status |-> "InTransit"]] : evs \in RawEventSeqs }
    \cup { [tracking |-> [providers |-> <<[events |-> evs]>>]] : evs \in RawEventSeqs }
    \cup { [tracking |-> [providers |-> <<>>], latest_status |-> st] : st \in LatestStatuses }
    \cup { [tracking |-> [providers |-> <<[provider |-> p]>>]] : p \in Providers }
    \* a payload that describes its status beside latest_status
    \cup { [tracking |-> [providers |-> <<[events |-> evs]>>],
             latest_status |-> [status |-> "InTransit"],
             status_description |-> "Out for delivery"] : evs \in SeqsUpTo(RawEvents, 1) }

LegacyEvents == { [a |-> "2026-01-20 10:00", z |-> "Delivered"], [z |-> "zh:yiqianshou"] }

StatusCodes == {0, 10, 20, 30, 35, 40, 50, 99}

\* Legacy/minified shape: z0 is the flat event array, e the status code, w1 the carrier.
LegacyTracks ==
    { [z0 |-> evs, e |-> c, w1 |-> "3011"] :
          evs \in SeqsUpTo(LegacyEvents, MaxEvents), c \in StatusCodes }
    \cup { [e |-> 40, w1 |-> "3011"] }

\* One entry of data.accepted.
AcceptedItems ==
    { [number |-> "n", track_info |-> t] : t \in ModernTracks }
    \cup { [number |-> "n", track |-> t] : t \in LegacyTracks }
    \cup { [number |-> "n"] }

(***************************************************************************)
(* Responses of the carrier aggregator's batch endpoints.  A call either   *)
(* throws (network / HTTP error) or returns a body (response.data).        *)
(***************************************************************************)
Thrown(msg) == [throw |-> TRUE, message |-> msg]
Returned(body) == [throw |-> FALSE, data |-> body]

NOT_FOUND == -18019902      \* a rejection other than "already registered"

Rejection(c) == [number |-> "n", error |-> [code |-> c]]

\* two entries: a payload without events yet and one with an event
SampleItems ==
    { [number |-> "n",
       track_info |-> [tracking |-> [providers |-> <<[events |-> evs,
                                                      provider |-> [name |-> "DHL"]]>>],
                       latest_status |-> [status |-> "InTransit"]]] :
          evs \in SeqsUpTo({[time_utc |-> "2026-01-19 08:00",
                              description |-> "zh:yiqianshou"]}, 1) }

\* events in every script the code knows, with and without a location
TextEvents ==
    { [time_utc |-> "2026-01-19 08:00"],
      [time_utc |-> "2026-01-19 08:00", description |-> "Delivered", location |-> "Berlin"],
      [time_utc |-> "2026-01-19 08:00", description |-> "Delivered", location |-> "ko:baesong"],
      [time_utc |-> "2026-01-19 08:00", description |-> "ja:haitatsu",
       location |-> "ru:dostavleno"] }
    \cup { [time_utc |-> "2026-01-19 08:00", description |-> d] :
              d \in {"zh:yiqianshou", "ru:dostavleno", "ko:baesong", "ja:haitatsu",
                     "zh+ja:nimotsu-wo"} }

TextItems ==
    { [number |-> "n",
       track_info |-> [tracking |-> [providers |-> <<[events |-> evs,
                                                      provider |-> [name |-> "DHL"]]>>],
                       latest_status |-> [status |-> "InTransit"]]] :
          evs \in SeqsUpTo(TextEvents, MaxEvents) }

CatalogueItems(which) ==
    IF which = "all" THEN AcceptedItems
    ELSE IF which = "texts" THEN TextItems
    ELSE SampleItems

\* gettrackinfo, when the aggregator's accepted entries are those of items
FetchResponses(items) ==
    { Thrown("Network Error") }
    \cup { Returned([code |-> 0, data |-> [accepted |-> <<it>>, rejected |-> <<>>]]) :
              it \in items }
    \cup { Returned([code |-> 0,
                     data |-> [accepted |-> <<>>, rejected |-> <<Rejection(NOT_FOUND)>>]]),
           Returned([code |-> 401]),
           Returned([code |-> 0]) }

\* register
RegisterAccepted ==
    Returned([code |-> 0, data |-> [accepted |-> <<[number |-> "n"]>>, rejected |-> <<>>]])
RegisterAlready ==
    Returned([code |-> 0,
              data |-> [accepted |-> <<>>, rejected |-> <<Rejection(ALREADY_REGISTERED)>>]])
RegisterRefused ==
    { Returned([code |-> 0,
                data |-> [accepted |-> <<>>, rejected |-> <<Rejection(NOT_FOUND)>>]]),
      Returned([code |-> 0, data |-> [accepted |-> <<>>, rejected |-> <<[number |-> "n"]>>]]),
      Returned([code |-> 0, data |-> [accepted |-> <<>>]]),
      Returned([code |-> 401]),
      Returned([code |-> 0]) }

\* changeinfo
ChangeInfoResponses ==
    { Thrown("Network Error"),
      Returned([code |-> 0, data |-> [accepted |-> <<[number |-> "n"]>>, rejected |-> <<>>]]),
      Returned([code |-> 0,
                data |-> [accepted |-> <<>>, rejected |-> <<Rejection(NOT_FOUND)>>]]),
      Returned([code |-> 401]) }

\* error.message of the TypeError raised by reading a property of undefined
TYPE_ERROR(property) ==
    "Cannot read properties of undefined (reading '" \o property \o "')"

(***************************************************************************)
(* Pure functions of trackingService.js.                                   *)
(***************************************************************************)
\* o.f for a string-valued optional field: "" when absent (falsy either way)
Str(o, f) == IF Has(o, f) THEN o[f] ELSE ""

\* a || b on strings
Or(a, b) == IF a # "" THEN a ELSE b

\* a status table without the entry for 35
getStatusTextShort(code) ==
    CASE code = 0 -> "Not Found"
      [] code = 10 -> "In Transit"
      [] code = 20 -> "Expired"
      [] code = 30 -> "Ready for Pickup"
      [] code = 40 -> "Delivered"
      [] code = 50 -> "Alert"
      [] OTHER -> "Unknown"

getStatusText(code) ==
    CASE code = 0 -> "Not Found"
      [] code = 10 -> "In Transit"
      [] code = 20 -> "Expired"
      [] code = 30 -> "Ready for Pickup"
      [] code = 35 -> "Undelivered"
      [] code = 40 -> "Delivered"
      [] code = 50 -> "Alert"
      [] OTHER -> "Unknown"

\* LANG_MAP is an object literal, so LANG_MAP[lang] also finds what the object
\* inherits from Object.prototype: functions (and for "__proto__" the prototype
\* itself), all of them truthy.  Such a value is the token "inherited:" \o name.
InheritedKeys == {"constructor", "toString", "valueOf", "hasOwnProperty", "__proto__"}

\* LANG_MAP[lang] ? LANG_MAP[lang] : lang
LANG_MAP(lang) ==
    CASE lang = "1033" -> "en"
      [] lang = "2052" -> "zh-CN"
      [] lang = "1036" -> "fr"
      [] lang = "1034" -> "es"
      [] lang = "1031" -> "de"
      [] lang = "1040" -> "it"
      [] lang = "1041" -> "ja"
      [] lang \in InheritedKeys -> "inherited:" \o lang
      [] OTHER -> lang

\* "Carrier ID: " + key
CarrierId(o, f) ==
    IF ~Has(o, f) THEN "Carrier ID: undefined"
    ELSE CASE o[f] = "100001" -> "Carrier ID: 100001"
           [] o[f] = "190008" -> "Carrier ID: 190008"
           [] o[f] = "21051" -> "Carrier ID: 21051"
           [] o[f] = "3011" -> "Carrier ID: 3011"
           [] OTHER -> "Carrier ID: ?"

\* the text detectLanguage tests for one event, as its two parts
EventDesc(ev) == Or(Str(ev, "desc"), Str(ev, "description"))
EventLoc(ev) == Str(ev, "location")

\* detectLanguage testing the kana before the ideographs
LanguageOfKanaFirst(ev) ==
    LET d == EventDesc(ev)
        l == EventLoc(ev)
    IN  IF d = "" /\ l = "" THEN "none"
        ELSE IF HasKana(d) \/ HasKana(l) THEN "Japanese"
        ELSE IF HasCJK(d) \/ HasCJK(l) THEN "Chinese"
        ELSE IF HasCyrillic(d) \/ HasCyrillic(l) THEN "Russian"
        ELSE IF HasHangul(d) \/ HasHangul(l) THEN "Korean"
        ELSE "none"

LanguageOf(ev) ==
    LET d == EventDesc(ev)
        l == EventLoc(ev)
    IN  IF d = "" /\ l = "" THEN "none"
        ELSE IF HasCJK(d) \/ HasCJK(l) THEN "Chinese"
        ELSE IF HasCyrillic(d) \/ HasCyrillic(l) THEN "Russian"
        ELSE IF HasHangul(d) \/ HasHangul(l) THEN "Korean"
        ELSE IF HasKana(d) \/ HasKana(l) THEN "Japanese"
        ELSE "none"

RECURSIVE detectFrom(_, _)
detectFrom(events, i) ==
    IF i > Len(events) THEN "English"
    ELSE IF LanguageOf(events[i]) # "none" THEN LanguageOf(events[i])
    ELSE detectFrom(events, i + 1)

detectLanguage(events) ==
    IF Len(events) = 0 THEN "Unknown" ELSE detectFrom(events, 1)

\* data.code === 0 && data.data.accepted.length > 0, or the TypeError it raises
Accepted(data) ==
    IF ~(Has(data, "code") /\ data.code = 0) THEN "no"
    ELSE IF ~Has(data, "data") THEN "throw"
    ELSE IF ~Has(data.data, "accepted") THEN "throw"
    ELSE IF Len(data.data.accepted) > 0 THEN "yes"
    ELSE "no"

\* the message of that TypeError: data.data is undefined when .accepted is read,
\* or data.data.accepted is undefined when .length is read
AcceptedError(data) ==
    IF ~Has(data, "data") THEN TYPE_ERROR("accepted") ELSE TYPE_ERROR("length")

\* registerTracking taking any rejection that carries an error for "already registered"
registerTrackingAnyRejection(resp) ==
    IF resp.throw THEN [ok |-> FALSE, error |-> resp.message]
    ELSE LET data == resp.data
         IN CASE Accepted(data) = "throw" -> [ok |-> FALSE, error |-> AcceptedError(data)]
              [] Accepted(data) = "yes" -> [ok |-> TRUE]
              [] OTHER ->
                   IF ~Has(data, "data") THEN [ok |-> FALSE, error |-> TYPE_ERROR("rejected")]
                   ELSE LET rejected == IF Has(data.data, "rejected")
                                        THEN data.data.rejected ELSE <<>>
                        IN IF \E i \in 1..Len(rejected) : Has(rejected[i], "error")
                           THEN [ok |-> TRUE]
                           ELSE [ok |-> FALSE, error |-> "Registration failed"]

\* registerTracking without the "already registered" branch
registerTrackingAcceptedOnly(resp) ==
    IF resp.throw THEN [ok |-> FALSE, error |-> resp.message]
    ELSE CASE Accepted(resp.data) = "throw" -> [ok |-> FALSE, error |-> AcceptedError(resp.data)]
           [] Accepted(resp.data) = "yes" -> [ok |-> TRUE]
           [] OTHER -> IF ~Has(resp.data, "data") THEN [ok |-> FALSE, error |-> TYPE_ERROR("rejected")]
                       ELSE [ok |-> FALSE, error |-> "Registration failed"]

\* registerTracking, from the response of the register call on
registerTracking(resp) ==
    IF resp.throw THEN [ok |-> FALSE, error |-> resp.message]
    ELSE LET data == resp.data
         IN CASE Accepted(data) = "throw" -> [ok |-> FALSE, error |-> AcceptedError(data)]
              [] Accepted(data) = "yes" -> [ok |-> TRUE]
              [] OTHER ->
                   IF ~Has(data, "data") THEN [ok |-> FALSE, error |-> TYPE_ERROR("rejected")]
                   ELSE LET rejected == IF Has(data.data, "rejected")
                                        THEN data.data.rejected ELSE <<>>
                            isAlreadyRegistered ==
                                \E i \in 1..Len(rejected) :
                                    /\ Has(rejected[i], "error")
                                    /\ Has(rejected[i].error, "code")
                                    /\ rejected[i].error.code = ALREADY_REGISTERED
                        IN IF isAlreadyRegistered THEN [ok |-> TRUE]
                           ELSE [ok |-> FALSE, error |-> "Registration failed"]

\* changeTrackingInfo, from the response of the changeinfo call on
changeTrackingInfo(resp) ==
    IF resp.throw THEN [ok |-> FALSE, error |-> resp.message]
    ELSE CASE Accepted(resp.data) = "throw" -> [ok |-> FALSE, error |-> AcceptedError(resp.data)]
           [] Accepted(resp.data) = "yes" -> [ok |-> TRUE]
           [] OTHER -> [ok |-> FALSE, error |-> "Change info failed"]

\* item.track_info || item.track
TrackOf(item) ==
    IF Has(item, "track_info") THEN <<item.track_info>>
    ELSE IF Has(item, "track") THEN <<item.track>>
    ELSE <<>>

\* info && info.tracking && info.tracking.providers
\*      && info.tracking.providers[0].events.length > 0, or the TypeError it raises
PollHasEvents(info) ==
    IF info = <<>> THEN "no"
    ELSE LET t == info[1]
         IN IF ~Has(t, "tracking") THEN "no"
            ELSE IF ~Has(t.tracking, "providers") THEN "no"
            ELSE IF Len(t.tracking.providers) = 0 THEN "throw"
            ELSE IF ~Has(t.tracking.providers[1], "events") THEN "throw"
            ELSE IF Len(t.tracking.providers[1].events) > 0 THEN "yes"
            ELSE "no"

ModernEvent(e) ==
    [time |-> Or(Str(e, "time_iso"), Str(e, "time_utc")),
     desc |-> Str(e, "description"),
     location |-> Str(e, "location")]

LegacyEvent(e) == [time |-> Str(e, "a"), desc |-> Str(e, "z")]

\* a normalization that lists the events newest first
NormalizeNewestFirst(trackData) ==
    IF Has(trackData, "tracking") /\ Has(trackData.tracking, "providers")
    THEN LET providers == trackData.tracking.providers
             hasProvider == Len(providers) > 0
         IN [events |->
                IF hasProvider /\ Has(providers[1], "events")
                THEN [i \in 1..Len(providers[1].events) |->
                         ModernEvent(providers[1].events[Len(providers[1].events) + 1 - i])]
                ELSE <<>>,
             carrier |->
                IF hasProvider /\ Has(providers[1], "provider")
                THEN Or(Str(providers[1].provider, "name"),
                        Or(Str(providers[1].provider, "alias"),
                           CarrierId(providers[1].provider, "key")))
                ELSE "Unknown",
             status |->
                IF Has(trackData, "latest_status")
                THEN Or(Str(trackData.latest_status, "status_description"),
                        Or(Str(trackData.latest_status, "status"), "Unknown"))
                ELSE "Unknown"]
    ELSE IF Has(trackData, "z0")
    THEN [events |-> [i \in 1..Len(trackData.z0) |->
                         LegacyEvent(trackData.z0[Len(trackData.z0) + 1 - i])],
          status |-> IF Has(trackData, "e") THEN getStatusText(trackData.e) ELSE "Unknown",
          carrier |-> CarrierId(trackData, "w1")]
    ELSE [events |-> <<>>, status |-> "Unknown", carrier |-> "Unknown"]

\* step 3 of getTrackingInfo: events, status and carrier of a track payload
Normalize(trackData) ==
    IF Has(trackData, "tracking") /\ Has(trackData.tracking, "providers")
    THEN LET providers == trackData.tracking.providers
             hasProvider == Len(providers) > 0
         IN [events |->
                IF hasProvider /\ Has(providers[1], "events")
                THEN [i \in 1..Len(providers[1].events) |-> ModernEvent(providers[1].events[i])]
                ELSE <<>>,
             carrier |->
                IF hasProvider /\ Has(providers[1], "provider")
                THEN Or(Str(providers[1].provider, "name"),
                        Or(Str(providers[1].provider, "alias"),
                           CarrierId(providers[1].provider, "key")))
                ELSE "Unknown",
             status |->
                IF Has(trackData, "latest_status")
                THEN Or(Str(trackData.latest_status, "status_description"),
                        Or(Str(trackData.latest_status, "status"), "Unknown"))
                ELSE "Unknown"]
    ELSE IF Has(trackData, "z0")
    THEN [events |-> [i \in 1..Len(trackData.z0) |-> LegacyEvent(trackData.z0[i])],
          status |-> IF Has(trackData, "e") THEN getStatusText(trackData.e) ELSE "Unknown",
          carrier |-> CarrierId(trackData, "w1")]
    ELSE [events |-> <<>>, status |-> "Unknown", carrier |-> "Unknown"]

(***************************************************************************)
(* translateEvents.  The translator answers each call with a text or       *)
(* throws; every event has its own callback, which translates the          *)
(* description and then the location.                                      *)
(***************************************************************************)
TranslatedTexts == {"Zugestellt"}

TranslateAnswers == { [throw |-> TRUE, text |-> ""] }
                    \cup { [throw |-> FALSE, text |-> x] : x \in TranslatedTexts }

\* the callback of events.map up to its first await: newEvent is a copy of the
\* event, and at names the translate call it has started and waits for ("desc"
\* for the description, "loc" for the location), "done" if it has none to make
BeginEvent(event) ==
    [event |-> event,
     at |-> IF NonBlank(Or(Str(event, "description"), Str(event, "desc"))) THEN "desc"
            ELSE IF NonBlank(Str(event, "location")) THEN "loc"
            ELSE "done"]

\* the translate call that w waits for is answered: an exception ends the callback
\* with newEvent as it is; the description's text is written, and the location
\* call is started if there is a location; the location's text is written
AnswerEvent(w, ans) ==
    IF ans.throw THEN [w EXCEPT !.at = "done"]
    ELSE IF w.at = "desc"
    THEN [event |-> [f \in DOMAIN w.event |->
                       IF f \in {"description", "desc"} /\ w.event[f] # ""
                       THEN ans.text ELSE w.event[f]],
          at |-> IF NonBlank(Str(w.event, "location")) THEN "loc" ELSE "done"]
    ELSE [event |-> [w.event EXCEPT !.location = ans.text], at |-> "done"]

\* the callbacks that wait for a translate call
Waiting(work) == {k \in 1..Len(work) : work[k].at # "done"}

(***************************************************************************)
(* Commerce side (get_token.js): orders as the REST API returns them.      *)
(* An email is a sequence of characters, so that toLowerCase is computed.  *)
(***************************************************************************)
LowerChar(c) ==
    CASE c = "A" -> "a"
      [] c = "B" -> "b"
      [] c = "C" -> "c"
      [] OTHER -> c

toLowerCase(str) == [i \in 1..Len(str) |-> LowerChar(str[i])]

\* o.email && o.email.toLowerCase() === email.toLowerCase()
EmailFieldMatches(o, f, email) ==
    /\ Has(o, f)
    /\ o[f] # <<>>
    /\ toLowerCase(o[f]) = toLowerCase(email)

EmailMatches(o, email) ==
    EmailFieldMatches(o, "email", email) \/ EmailFieldMatches(o, "contact_email", email)

\* orders.find(...): the first order whose email or contact_email matches, if any
RECURSIVE FindByEmail(_, _, _)
FindByEmail(orders, email, i) ==
    IF i > Len(orders) THEN <<>>
    ELSE IF EmailMatches(orders[i], email) THEN <<orders[i]>>
    ELSE FindByEmail(orders, email, i + 1)

PackageName(n) ==
    CASE n = 1 -> "Package #1"
      [] n = 2 -> "Package #2"
      [] n = 3 -> "Package #3"
      [] n = 4 -> "Package #4"
      [] OTHER -> "Package #5"

ProcessingName(n) ==
    CASE n = 1 -> "Package #1 (Processing)"
      [] n = 2 -> "Package #2 (Processing)"
      [] n = 3 -> "Package #3 (Processing)"
      [] n = 4 -> "Package #4 (Processing)"
      [] OTHER -> "Package #5 (Processing)"

\* the keys of lineItemsMap, in the order Object.values walks them: integer
\* keys ascending
RECURSIVE Ascending(_)
Ascending(ids) ==
    IF ids = {} THEN <<>>
    ELSE LET m == CHOOSE x \in ids : \A y \in ids : x <= y
         IN <<m>> \o Ascending(ids \ {m})

\* the last line item with this id (a later entry overwrites an earlier one)
LastWithId(line_items, id) ==
    line_items[CHOOSE i \in 1..Len(line_items) :
                  /\ line_items[i].id = id
                  /\ \A j \in (i + 1)..Len(line_items) : line_items[j].id # id]

\* the image of a line item: variant image first, then the product's main image
ImageFor(li, products) ==
    LET matching == {k \in 1..Len(products) : products[k].id = li.product_id}
        variantOf(prod) ==
            IF Has(prod, "images")
            THEN {k \in 1..Len(prod.images) : li.variant_id \in prod.images[k].variant_ids}
            ELSE {}
        imageOf(prod) ==
            IF variantOf(prod) # {}
            THEN prod.images[CHOOSE k \in variantOf(prod) : \A m \in variantOf(prod) : k <= m].src
            ELSE IF Has(prod, "image") THEN prod.image.src
            ELSE ""
        withImage == {k \in matching : imageOf(products[k]) # ""}
    IN  IF withImage = {} THEN ""
        ELSE imageOf(products[CHOOSE k \in withImage : \A m \in withImage : k >= m])

\* step 1 and 2 of processOrderData: Object.values(lineItemsMap)
LineItemsOf(order, products) ==
    LET ids == Ascending({order.line_items[i].id : i \in 1..Len(order.line_items)})
    IN  [k \in 1..Len(ids) |->
            LET item == LastWithId(order.line_items, ids[k])
            IN [id |-> item.id, name |-> item.name, quantity |-> item.quantity,
                price |-> item.price, currency |-> order.currency,
                product_id |-> item.product_id, variant_id |-> item.variant_id,
                image |-> ImageFor(item, products)]]

ItemById(items, id) ==
    LET at == {k \in 1..Len(items) : items[k].id = id}
    IN  IF at = {} THEN <<>> ELSE <<items[CHOOSE k \in at : TRUE]>>

\* { ...lineItemsMap[li.id], quantity: li.quantity }
PackageItem(items, li) ==
    IF ItemById(items, li.id) = <<>> THEN [quantity |-> li.quantity]
    ELSE [ItemById(items, li.id)[1] EXCEPT !.quantity = li.quantity]

FulfillmentPackage(items, f, index) ==
    [id |-> f.id, name |-> PackageName(index),
     tracking_number |-> Str(f, "tracking_number"),
     tracking_company |-> Str(f, "tracking_company"),
     tracking_url |-> Str(f, "tracking_url"),
     status |-> Or(Str(f, "shipment_status"), "fulfilled"),
     items |-> [k \in 1..Len(f.line_items) |-> PackageItem(items, f.line_items[k])]]

HasTracking(p) == p.tracking_number # ""

\* step 3 without the filter: a package for every fulfillment
RealPackagesUnfiltered(order, items) ==
    [i \in 1..Len(order.fulfillments) |->
        FulfillmentPackage(items, order.fulfillments[i], i)]

\* step 3 of processOrderData: one package per fulfillment that has a tracking number
RealPackages(order, items) ==
    SelectSeq([i \in 1..Len(order.fulfillments) |->
                  FulfillmentPackage(items, order.fulfillments[i], i)], HasTracking)

RECURSIVE SumQty(_, _)
SumQty(pitems, id) ==
    IF pitems = <<>> THEN 0
    ELSE (IF Has(Head(pitems), "id") /\ Head(pitems).id = id
          THEN Head(pitems).quantity ELSE 0) + SumQty(Tail(pitems), id)

RECURSIVE FulfilledCount(_, _)
FulfilledCount(packages, id) ==
    IF packages = <<>> THEN 0
    ELSE SumQty(Head(packages).items, id) + FulfilledCount(Tail(packages), id)

\* step 4 with "remainingQty >= 0" for "remainingQty > 0"
RECURSIVE UnfulfilledOrZero(_, _)
UnfulfilledOrZero(items, packages) ==
    IF items = <<>> THEN <<>>
    ELSE LET item == Head(items)
             remainingQty == item.quantity - FulfilledCount(packages, item.id)
         IN (IF remainingQty >= 0 THEN <<[item EXCEPT !.quantity = remainingQty]>> ELSE <<>>)
            \o UnfulfilledOrZero(Tail(items), packages)

\* step 4 pushing the item as ordered, without "quantity: remainingQty"
RECURSIVE UnfulfilledAsOrdered(_, _)
UnfulfilledAsOrdered(items, packages) ==
    IF items = <<>> THEN <<>>
    ELSE LET item == Head(items)
             remainingQty == item.quantity - FulfilledCount(packages, item.id)
         IN (IF remainingQty > 0 THEN <<item>> ELSE <<>>)
            \o UnfulfilledAsOrdered(Tail(items), packages)

\* step 4 of processOrderData: the items with a remaining quantity
RECURSIVE Unfulfilled(_, _)
Unfulfilled(items, packages) ==
    IF items = <<>> THEN <<>>
    ELSE LET item == Head(items)
             remainingQty == item.quantity - FulfilledCount(packages, item.id)
         IN (IF remainingQty > 0 THEN <<[item EXCEPT !.quantity = remainingQty]>> ELSE <<>>)
            \o Unfulfilled(Tail(items), packages)

ProcessingPackage(n, unfulfilledItems) ==
    [id |-> "unfulfilled-group", name |-> ProcessingName(n),
     tracking_number |-> "Processing", tracking_company |-> "N/A",
     tracking_url |-> "", status |-> "ordered", items |-> unfulfilledItems]

\* processOrderData without step 4 (as in services/shopifyService.js)
processOrderDataRealOnly(order, products) ==
    LET items == LineItemsOf(order, products)
    IN  [ok |-> TRUE,
         order |-> [id |-> order.id, name |-> order.name, email |-> Str(order, "email"),
                    created_at |-> order.created_at,
                    destination |-> IF Has(order, "shipping_address")
                                    THEN order.shipping_address.country ELSE "Unknown",
                    items |-> items, packages |-> RealPackages(order, items)]]

\* step 4 writing remainingQty into the line item itself instead of a copy: the
\* order's items and the Processing package then hold the same objects
processOrderDataInPlace(order, products) ==
    LET items == LineItemsOf(order, products)
        real == RealPackages(order, items)
        unfulfilledItems == Unfulfilled(items, real)
        packages == IF Len(unfulfilledItems) > 0
                    THEN Append(real, ProcessingPackage(Len(real) + 1, unfulfilledItems))
                    ELSE real
        written == [k \in 1..Len(items) |->
                      LET remainingQty == items[k].quantity
                                             - FulfilledCount(real, items[k].id)
                      IN  IF remainingQty > 0
                          THEN [items[k] EXCEPT !.quantity = remainingQty]
                          ELSE items[k]]
    IN  [ok |-> TRUE,
         order |-> [id |-> order.id, name |-> order.name, email |-> Str(order, "email"),
                    created_at |-> order.created_at,
                    destination |-> IF Has(order, "shipping_address")
                                    THEN order.shipping_address.country ELSE "Unknown",
                    items |-> written, packages |-> packages]]

\* processOrderData, given the products the image lookup returned (<<>> if none)
processOrderData(order, products) ==
    LET items == LineItemsOf(order, products)
        real == RealPackages(order, items)
        unfulfilledItems == Unfulfilled(items, real)
        packages == IF Len(unfulfilledItems) > 0
                    THEN Append(real, ProcessingPackage(Len(real) + 1, unfulfilledItems))
                    ELSE real
    IN  [ok |-> TRUE,
         order |-> [id |-> order.id, name |-> order.name, email |-> Str(order, "email"),
                    created_at |-> order.created_at,
                    destination |-> IF Has(order, "shipping_address")
                                    THEN order.shipping_address.country ELSE "Unknown",
                    items |-> items, packages |-> packages]]

MockItem(id, name, price, image) ==
    [id |-> id, name |-> name, quantity |-> 1, price |-> price, currency |-> "USD",
     image |-> image]

getMockOrder(orderName) ==
    LET item1 == MockItem(101, "Tesla Model Y Wheel Rims Touch Up Paint", "24.99",
                          "https://placehold.co/60x60?text=Paint")
        item2 == MockItem(102, "Tesla Model 3/Y/X/S Mini Emergency Car Hammer - Silver",
                          "11.99", "https://placehold.co/60x60?text=Hammer")
        item3 == MockItem(103, "Tesla Model 3/Y/X/S Mini Emergency Car Hammer - Red",
                          "11.99", "https://placehold.co/60x60?text=RedHammer")
    IN  [ok |-> TRUE,
         order |-> [id |-> 123456789, name |-> Or(orderName, "#EVO7103"),
                    \* "schulerts@pm.me"
                    email |-> <<"s", "c", "h", "u", "l", "e", "r", "t", "s", "@",
                                "p", "m", ".", "m", "e">>,
                    created_at |-> "now",
                    destination |-> "United States",
                    items |-> <<item1, item2, item3>>,
                    packages |-> <<
                        [name |-> "Package #1", tracking_number |-> "YT2602400702022310",
                         tracking_company |-> "YunExpress", status |-> "in_transit",
                         items |-> <<item1>>],
                        [name |-> "Package #2", tracking_number |-> "US8849201923",
                         tracking_company |-> "USPS", status |-> "delivered",
                         items |-> <<item2, item3>>] >>]]

(***************************************************************************)
(* findOrderByTrackingNumber: the GraphQL order search and its mapping.    *)
(* A global id is the sequence of its "/"-separated segments.              *)
(***************************************************************************)
Gid(kind, id) == <<"gid:", "", "shopify", kind, id>>

\* item.id.split('/').pop()
cleanId(gid) == gid[Len(gid)]

GraphItem(node, item) ==
    [id |-> cleanId(item.id), name |-> item.title, quantity |-> item.quantity,
     price |-> item.originalUnitPrice, currency |-> node.currencyCode,
     image |-> IF Has(item, "variant") /\ Has(item.variant, "image")
               THEN item.variant.image.url ELSE ""]

\* lineItemsMap[gid], for the last line item with that gid
GraphItemByGid(node, gid) ==
    LET edges == node.lineItems.edges
        at == {k \in 1..Len(edges) : edges[k].node.id = gid}
    IN  IF at = {} THEN <<>>
        ELSE <<GraphItem(node, edges[CHOOSE k \in at : \A m \in at : k >= m].node)>>

\* Object.values(lineItemsMap): string keys, in insertion order
GraphItems(node) ==
    LET edges == node.lineItems.edges
        first == {k \in 1..Len(edges) : \A j \in 1..(k - 1) : edges[j].node.id # edges[k].node.id}
    IN  [k \in 1..Cardinality(first) |->
            LET idx == CHOOSE i \in first : Cardinality({j \in first : j < i}) = k - 1
            IN GraphItemByGid(node, edges[idx].node.id)[1]]

\* f.trackingInfo.find(t => t.number === trackingNumber) || f.trackingInfo[0] || {}
TrackingInfoOf(f, trackingNumber) ==
    LET hits == {k \in 1..Len(f.trackingInfo) : Str(f.trackingInfo[k], "number") = trackingNumber}
    IN  IF hits # {} THEN f.trackingInfo[CHOOSE k \in hits : \A m \in hits : k <= m]
        ELSE IF Len(f.trackingInfo) > 0 THEN f.trackingInfo[1]
        ELSE [none |-> TRUE]

NamedItem(item) == Has(item, "name") /\ item.name # ""

GraphPackage(node, f, index, trackingNumber) ==
    LET trackingInfo == TrackingInfoOf(f, trackingNumber)
        edges == f.fulfillmentLineItems.edges
    IN  [id |-> f.id, name |-> PackageName(index),
         tracking_number |-> Str(trackingInfo, "number"),
         tracking_company |-> Str(trackingInfo, "company"),
         tracking_url |-> Str(trackingInfo, "url"),
         status |-> "fulfilled",
         items |-> SelectSeq(
             [k \in 1..Len(edges) |->
                 LET originalItem == GraphItemByGid(node, edges[k].node.lineItem.id)
                 IN IF originalItem = <<>> THEN [quantity |-> edges[k].node.quantity]
                    ELSE [originalItem[1] EXCEPT !.quantity = edges[k].node.quantity]],
             NamedItem)]

GraphPackages(node, trackingNumber) ==
    SelectSeq([i \in 1..Len(node.fulfillments) |->
                  GraphPackage(node, node.fulfillments[i], i, trackingNumber)], HasTracking)

\* findOrderByTrackingNumber trusting the search: no test for the target package
findOrderFromResponseUnchecked(resp, trackingNumber) ==
    IF resp.throw THEN [ok |-> FALSE, error |-> "Failed to verify tracking number."]
    ELSE IF ~Has(resp.data, "data")
         THEN [ok |-> FALSE, error |-> "No order found with this tracking number."]
    ELSE LET data == resp.data.data
         IN IF ~Has(data, "orders") \/ Len(data.orders.edges) = 0
            THEN [ok |-> FALSE, error |-> "No order found with this tracking number."]
            ELSE LET node == data.orders.edges[1].node
                     packages == GraphPackages(node, trackingNumber)
                 IN [ok |-> TRUE,
                     order |-> [id |-> node.id, name |-> node.name, email |-> node.email,
                                created_at |-> node.createdAt,
                                destination |-> IF Has(node, "shippingAddress")
                                                THEN node.shippingAddress.country
                                                ELSE "Unknown",
                                items |-> GraphItems(node), packages |-> packages]]

\* findOrderByTrackingNumber, from the response of the GraphQL call on
findOrderFromResponse(resp, trackingNumber) ==
    IF resp.throw THEN [ok |-> FALSE, error |-> "Failed to verify tracking number."]
    ELSE IF ~Has(resp.data, "data")
         THEN [ok |-> FALSE, error |-> "No order found with this tracking number."]
    ELSE LET data == resp.data.data
         IN IF ~Has(data, "orders") \/ Len(data.orders.edges) = 0
            THEN [ok |-> FALSE, error |-> "No order found with this tracking number."]
            ELSE LET node == data.orders.edges[1].node
                     packages == GraphPackages(node, trackingNumber)
                 IN IF \A k \in 1..Len(packages) : packages[k].tracking_number # trackingNumber
                    THEN [ok |-> FALSE,
                          error |-> "Tracking number not found in order fulfillments."]
                    ELSE [ok |-> TRUE,
                          order |-> [id |-> node.id, name |-> node.name, email |-> node.email,
                                     created_at |-> node.createdAt,
                                     destination |-> IF Has(node, "shippingAddress")
                                                     THEN node.shippingAddress.country
                                                     ELSE "Unknown",
                                     items |-> GraphItems(node), packages |-> packages]]

(***************************************************************************)
(* getTrackingInfo as a process.  pc names the await the call is           *)
(* suspended at; calls is the sequence of external calls and delays it     *)
(* has started so far.                                                     *)
(***************************************************************************)
TrackingNumbers == {"TN1", "TN2"}
Langs == {"", "en", "2052"}          \* "" stands for null (no target language)

Op(name, ms) == [op |-> name, ms |-> ms]

\* Besides the locals of the call, a task records what the aggregator answered:
\* langAnswer ("threw" or "returned") for the changeinfo call, first for the first
\* gettrackinfo call, polls for the polls, regResponse for the register call,
\* payload for the track data that was processed, target for the code the
\* translator was called with,
\* failed for the events one of whose translate calls threw.  norm, the result
\* as it was before translation, is kept until the next call.  work holds the
\* callbacks of translateEvents while the call waits for them.
IdleTask ==
    [pc |-> "idle", tracking |-> "", lang |-> "", wait |-> 0, norm |-> <<>>,
     langAnswer |-> "", first |-> "", polls |-> <<>>,
     regResponse |-> <<>>, regResult |-> <<>>, failed |-> {}, target |-> "",
     payload |-> <<>>, work |-> <<>>, result |-> <<>>, calls |-> <<>>]

\* the payload of the first accepted entry of a well-formed gettrackinfo answer
PayloadOf(resp) ==
    IF resp.throw \/ ~Has(resp.data, "data") \/ ~Has(resp.data.data, "accepted")
       \/ resp.data.code # 0 \/ Len(resp.data.data.accepted) = 0
    THEN <<>>
    ELSE TrackOf(resp.data.data.accepted[1])

\* the number of events a gettrackinfo answer carries, in either payload shape
CarriedEvents(resp) ==
    IF PayloadOf(resp) = <<>> THEN 0
    ELSE LET p == PayloadOf(resp)[1]
         IN IF Has(p, "tracking")
            THEN IF Len(p.tracking.providers) > 0 /\ Has(p.tracking.providers[1], "events")
                 THEN Len(p.tracking.providers[1].events) ELSE 0
            ELSE IF Has(p, "z0") THEN Len(p.z0) ELSE 0

\* what a gettrackinfo answer is: a network exception ("threw"), a body without
\* the documented fields ("malformed"), no accepted entry ("absent"), an accepted
\* entry without any event ("empty"), or one with events ("modern", "legacy")
AnswerClass(resp) ==
    IF resp.throw THEN "threw"
    ELSE IF resp.data.code = 0
            /\ (~Has(resp.data, "data") \/ ~Has(resp.data.data, "accepted")) THEN "malformed"
    ELSE IF resp.data.code # 0 \/ Len(resp.data.data.accepted) = 0 THEN "absent"
    ELSE IF CarriedEvents(resp) = 0 THEN "empty"
    ELSE IF Has(PayloadOf(resp)[1], "tracking") THEN "modern"
    ELSE "legacy"

\* the same for a poll, where "none" is an answer without any event
PollClass(resp) ==
    IF AnswerClass(resp) \in {"absent", "empty"} THEN "none" ELSE AnswerClass(resp)

Return(t, res) == [t EXCEPT !.pc = "returned", !.result = <<res>>]

\* an exception is thrown inside the try block of getTrackingInfo
Raise(t) == [t EXCEPT !.pc = "raised"]

ServiceError == [ok |-> FALSE, error |-> "Service Error"]

\* the try block without its catch
TryWithoutCatch(t) == t

\* try { ... } catch (error) { return { ok: false, error: "Service Error" } }
TryCatch(t) == IF t.pc = "raised" THEN Return(t, ServiceError) ELSE t

MockResult(tracking) ==
    [ok |-> TRUE, tracking |-> tracking, status |-> "In transit", carrier |-> "DemoCarrier",
     events |-> << [time |-> "2026-01-20 10:00", desc |-> "Label created"],
                   [time |-> "2026-01-21 15:30", desc |-> "Picked up"],
                   [time |-> "2026-01-23 09:10", desc |-> "In transit"] >>]

RegisteredResult(tracking) ==
    [ok |-> TRUE, tracking |-> tracking, status |-> "Registered", carrier |-> "Detecting...",
     events |-> << [time |-> "now",
                    desc |-> "Tracking number registered. System is retrieving details from carrier..."] >>]

KeyMissing(key) == key = "" \/ key = PLACEHOLDER_KEY

\* getTrackingInfo testing the credentials before the sentinel
StartKeyFirst(key, tracking, lang) ==
    LET t == [IdleTask EXCEPT !.tracking = tracking, !.lang = lang]
    IN  IF KeyMissing(key)
        THEN Return(t, [ok |-> FALSE, error |-> "Tracking service not configured"])
        ELSE IF tracking = MOCK_TRACKING THEN Return(t, MockResult(tracking))
        ELSE IF lang # ""
             THEN [t EXCEPT !.pc = "changeinfo", !.calls = <<Op("setLanguage", 0)>>]
        ELSE [t EXCEPT !.pc = "fetch", !.calls = <<Op("fetch", 0)>>]

\* getTrackingInfo testing only that the key is set, not the placeholder value
StartAnyKey(key, tracking, lang) ==
    LET t == [IdleTask EXCEPT !.tracking = tracking, !.lang = lang]
    IN  IF tracking = MOCK_TRACKING THEN Return(t, MockResult(tracking))
        ELSE IF key = ""
             THEN Return(t, [ok |-> FALSE, error |-> "Tracking service not configured"])
        ELSE IF lang # ""
             THEN [t EXCEPT !.pc = "changeinfo", !.calls = <<Op("setLanguage", 0)>>]
        ELSE [t EXCEPT !.pc = "fetch", !.calls = <<Op("fetch", 0)>>]

\* getTrackingInfo up to its first await
Start(key, tracking, lang) ==
    LET t == [IdleTask EXCEPT !.tracking = tracking, !.lang = lang]
    IN  IF tracking = MOCK_TRACKING THEN Return(t, MockResult(tracking))
        ELSE IF KeyMissing(key)
             THEN Return(t, [ok |-> FALSE, error |-> "Tracking service not configured"])
        ELSE IF lang # ""
             THEN [t EXCEPT !.pc = "changeinfo", !.calls = <<Op("setLanguage", 0)>>]
        ELSE [t EXCEPT !.pc = "fetch", !.calls = <<Op("fetch", 0)>>]

\* step 3 of getTrackingInfo, from the track data (if any) to the translateEvents
\* await: translateEvents has run the callback of every event up to its first
\* translate call; with no call to wait for, the result is returned in the same turn
Process(t, trackData) ==
    IF trackData = <<>> THEN Return(t, [ok |-> FALSE])
    ELSE LET n == Normalize(trackData[1])
             originalLang == detectLanguage(n.events)
             targetLang == IF t.lang = "" THEN "" ELSE LANG_MAP(t.lang)
             res == [ok |-> TRUE, tracking |-> t.tracking, status |-> n.status,
                     carrier |-> n.carrier, events |-> n.events,
                     original_language |-> originalLang]
             seen == [t EXCEPT !.payload = trackData]
             work == [i \in 1..Len(n.events) |-> BeginEvent(n.events[i])]
             translating ==
                 [seen EXCEPT !.norm = <<res>>, !.target = targetLang,
                              !.calls = @ \o [k \in 1..Cardinality(Waiting(work)) |->
                                                 Op("translate", 0)]]
         IN IF targetLang = "" THEN Return(seen, res)
            ELSE IF Waiting(work) = {} THEN Return(translating, res)
            ELSE [translating EXCEPT !.pc = "translate", !.work = work]

\* the await of changeTrackingInfo returns; its result is ignored
AfterChangeInfo(t, resp) ==
    [t EXCEPT !.pc = "settle", !.calls = Append(@, Op("delay", SETTLE_MS)),
              !.langAnswer = IF resp.throw THEN "threw" ELSE "returned"]

\* a call that tries setLanguage a second time when the first attempt threw
AfterSettleRetrying(t) ==
    IF t.langAnswer = "threw" /\ Len(t.calls) = 2
    THEN [t EXCEPT !.pc = "changeinfo", !.calls = Append(@, Op("setLanguage", 0))]
    ELSE [t EXCEPT !.pc = "fetch", !.calls = Append(@, Op("fetch", 0))]

\* the settle delay is over: the first fetch starts
AfterSettle(t) == [t EXCEPT !.pc = "fetch", !.calls = Append(@, Op("fetch", 0))]

\* the first fetchFrom17Track returns: lines 191-203
FetchBody(t, resp) ==
    IF resp.throw THEN Raise(t)
    ELSE CASE Accepted(resp.data) = "throw" -> Raise(t)
           [] Accepted(resp.data) = "yes" -> Process(t, TrackOf(resp.data.data.accepted[1]))
           [] OTHER -> [t EXCEPT !.pc = "register", !.calls = Append(@, Op("register", 0))]

AfterFetch(t, resp) == TryCatch(FetchBody([t EXCEPT !.first = AnswerClass(resp)], resp))

\* a call that takes "already registered" as somebody else's business and
\* returns the Registered placeholder at once, without polling
AfterRegisterLeavesPollingToOther(t, resp) ==
    LET regResult == registerTracking(resp)
        seen == [t EXCEPT !.regResponse = <<resp>>, !.regResult = <<regResult>>]
    IN  IF regResult.ok /\ resp = RegisterAlready
        THEN Return(seen, RegisteredResult(t.tracking))
        ELSE IF regResult.ok
        THEN [seen EXCEPT !.pc = "delay", !.wait = 1,
                          !.calls = Append(@, Op("delay", waitTimes[1]))]
        ELSE Return(seen, [ok |-> FALSE,
                           error |-> "Tracking number not found and could not be registered."])

\* registerTracking returns: lines 202-246
AfterRegister(t, resp) ==
    LET regResult == registerTracking(resp)
        seen == [t EXCEPT !.regResponse = <<resp>>, !.regResult = <<regResult>>]
    IN  IF regResult.ok
        THEN [seen EXCEPT !.pc = "delay", !.wait = 1,
                          !.calls = Append(@, Op("delay", waitTimes[1]))]
        ELSE Return(seen, [ok |-> FALSE,
                           error |-> "Tracking number not found and could not be registered."])

AfterDelay(t) == [t EXCEPT !.pc = "poll", !.calls = Append(@, Op("fetch", 0))]

\* a poll loop that tries once more after the schedule is exhausted
NextWaitOnceMore(t) ==
    IF t.wait <= Len(waitTimes)
    THEN [t EXCEPT !.pc = "delay", !.wait = @ + 1,
                   !.calls = Append(@, Op("delay", waitTimes[Len(waitTimes)]))]
    ELSE Return(t, RegisteredResult(t.tracking))

\* the poll loop goes on to its next wait, or ends without track data
NextWait(t) ==
    IF t.wait < Len(waitTimes)
    THEN [t EXCEPT !.pc = "delay", !.wait = @ + 1,
                   !.calls = Append(@, Op("delay", waitTimes[t.wait + 1]))]
    ELSE Return(t, RegisteredResult(t.tracking))

\* a poll's fetchFrom17Track returns: lines 215-242
PollBody(t, resp) ==
    IF resp.throw THEN Raise(t)
    ELSE CASE Accepted(resp.data) = "throw" -> Raise(t)
           [] Accepted(resp.data) = "yes" ->
                LET info == TrackOf(resp.data.data.accepted[1])
                IN CASE PollHasEvents(info) = "throw" -> Raise(t)
                     [] PollHasEvents(info) = "yes" -> Process(t, info)
                     [] OTHER -> NextWait(t)
           [] OTHER -> NextWait(t)

AfterPoll(t, resp) ==
    TryCatch(PollBody([t EXCEPT !.polls = Append(@, PollClass(resp))], resp))

\* a translate call answered, with original_language detected on the output of
\* translateEvents
AfterTranslateDetectsLate(t, k, ans) ==
    LET w == AnswerEvent(t.work[k], ans)
        work == [t.work EXCEPT ![k] = w]
        events == [j \in 1..Len(work) |-> work[j].event]
        next == [t EXCEPT !.work = work,
                          !.failed = IF ans.throw THEN @ \cup {k} ELSE @,
                          !.calls = IF w.at # "done" THEN Append(@, Op("translate", 0))
                                    ELSE @]
    IN  IF Waiting(work) = {}
        THEN Return([next EXCEPT !.work = <<>>],
                    [t.norm[1] EXCEPT !.events = events,
                                      !.original_language = detectLanguage(events)])
        ELSE next

\* the translate call that the callback of event k waits for is answered: the
\* callback goes on to its next call or ends, and when the last one has ended
\* Promise.all resolves and getTrackingInfo returns
AfterTranslate(t, k, ans) ==
    LET w == AnswerEvent(t.work[k], ans)
        work == [t.work EXCEPT ![k] = w]
        next == [t EXCEPT !.work = work,
                          !.failed = IF ans.throw THEN @ \cup {k} ELSE @,
                          !.calls = IF w.at # "done" THEN Append(@, Op("translate", 0))
                                    ELSE @]
    IN  IF Waiting(work) = {}
        THEN Return([next EXCEPT !.work = <<>>],
                    [t.norm[1] EXCEPT !.events = [j \in 1..Len(work) |-> work[j].event]])
        ELSE next

\* what the aggregator may answer to a register call for tracking number tn
RegisterResponses(tn) ==
    IF tn \in registered THEN {Thrown("Network Error"), RegisterAlready}
    ELSE {Thrown("Network Error"), RegisterAccepted} \cup RegisterRefused

IdleShop == [pc |-> "idle", orderName |-> "", email |-> <<>>, tracking |-> "",
             raw |-> <<>>, result |-> <<>>]

\* slots[i] is the Promise.all slot of package i (<<>> while pending) and outcome[i]
\* tells how it was filled: "skipped" (no getTrackingInfo call), "ok" or "failed"
\* log holds what the security check logged
IdleRun == [pc |-> "idle", tracking |-> "", lang |-> "", order |-> <<>>,
            slots |-> <<>>, outcome |-> <<>>, rendered |-> <<>>, log |-> <<>>]

\* Next to the request in flight the handler record carries its twin: the run of
\* the handler on the same request and the same answers of the collaborators, but
\* with the opposite outcome of the signature check.
IdleHandler == IdleRun @@ [twin |-> <<>>]

\* the handler and its twin take the step F
Both(F(_), h) ==
    [F(h) EXCEPT !.twin = IF h.twin = <<>> THEN <<>> ELSE <<F(h.twin[1])>>]

(***************************************************************************)
(* verifyShopifySignature (utils/shopifyAuth.js).  The hex digest of a     *)
(* message under a key is the pair of the two (no collisions), with the    *)
(* length of the string.                                                   *)
(***************************************************************************)
PLACEHOLDER_SECRET == "YOUR_CLIENT_SECRET_HERE"
HexLen == 64

NoSignature == [len |-> 0, digest |-> <<>>]

createHmac(sharedSecret, message) == [len |-> HexLen, digest |-> <<sharedSecret, message>>]

\* sortedKeys.map(key => `${key}=${params[key]}`).join(''), over the parameters
\* of the request other than signature
SignedMessage(query) ==
    LET pairs == << <<"email", query.email>>, <<"lang", <<query.lang>> >>,
                    <<"order", <<query.order>> >>, <<"tracking", <<query.tracking>> >> >>
        present(pair) == pair[2] # <<>> /\ pair[2] # <<"">>
    IN  SelectSeq(pairs, present)

verifyShopifySignature(query, sharedSecret) ==
    IF sharedSecret = "" \/ sharedSecret = PLACEHOLDER_SECRET THEN TRUE
    ELSE IF query.signature = NoSignature THEN FALSE
    ELSE LET generatedSignature == createHmac(sharedSecret, SignedMessage(query))
         IN  IF generatedSignature.len # query.signature.len THEN FALSE
             ELSE generatedSignature = query.signature

(***************************************************************************)
(* GET /proxy/track (server.js).                                           *)
(***************************************************************************)
\* a handler for which 'original' is a language code like any other
TargetLangAlways(requestedLang) == Or(requestedLang, "en")

\* requestedLang === 'original' ? null : (requestedLang || 'en')
TargetLang(requestedLang) ==
    IF requestedLang = "original" THEN "" ELSE Or(requestedLang, "en")

Render(h, view) == [h EXCEPT !.pc = "done", !.rendered = <<view>>]

ErrorView(message) == [view |-> "error", message |-> message]

TrackView(order, packages, isSearch, currentLang) ==
    [view |-> "track", order |-> order, packages |-> packages, isSearch |-> isSearch,
     currentLang |-> currentLang]

\* a test that takes every package with a tracking_number for a shipment
TrackableIfNumbered(pkg) == pkg.tracking_number # ""

\* pkg.tracking_number && pkg.tracking_number !== 'Processing'
Trackable(pkg) == pkg.tracking_number # "" /\ pkg.tracking_number # "Processing"

\* { ...a, ...b }
Spread(a, b) == [f \in DOMAIN a \cup DOMAIN b |-> IF f \in DOMAIN b THEN b[f] ELSE a[f]]

\* an enrichment callback that answers a failed lookup with the bare { events: [] }
EnrichedOrBare(pkg, trackInfo) ==
    IF trackInfo.ok
    THEN Spread(pkg, [status |-> trackInfo.status, carrier |-> trackInfo.carrier,
                      events |-> IF Has(trackInfo, "events") THEN trackInfo.events ELSE <<>>,
                      original_language |-> Str(trackInfo, "original_language")])
    ELSE [events |-> <<>>]

\* what the enrichment callback returns for pkg, given getTrackingInfo's result
Enriched(pkg, trackInfo) ==
    IF trackInfo.ok
    THEN Spread(pkg, [status |-> trackInfo.status, carrier |-> trackInfo.carrier,
                      events |-> IF Has(trackInfo, "events") THEN trackInfo.events ELSE <<>>,
                      original_language |-> Str(trackInfo, "original_language")])
    ELSE Spread(pkg, [events |-> <<>>])

NotEnriched(pkg) == Spread(pkg, [events |-> <<>>])

\* the single package of the tracking-number path
SplicedPackage(order, tracking, trackInfo) ==
    LET packages == order.packages
        hits == {k \in 1..Len(packages) : packages[k].tracking_number = tracking}
        matchedPackage ==
            IF hits # {} THEN packages[CHOOSE k \in hits : \A m \in hits : k <= m]
            ELSE IF Len(packages) > 0 THEN packages[1]
            ELSE [none |-> TRUE]
        pkgCarrier == IF trackInfo.ok THEN trackInfo.carrier ELSE "Unknown"
    IN  Spread(matchedPackage,
               [carrier |-> Or(pkgCarrier, Str(matchedPackage, "tracking_company")),
                status |-> IF trackInfo.ok THEN trackInfo.status ELSE "fulfilled",
                events |-> IF trackInfo.ok /\ Has(trackInfo, "events")
                           THEN trackInfo.events ELSE <<>>,
                original_language |-> IF trackInfo.ok
                                      THEN Str(trackInfo, "original_language")
                                      ELSE "Unknown"])

\* the final check and render of the handler
Finish(h, order, packages, currentLang) ==
    IF Len(packages) = 0 /\ order = <<>>
    THEN Render(h, ErrorView("No tracking information found."))
    ELSE Render(h, TrackView(order, packages, TRUE, currentLang))

\* order mode: Promise.all resolves once every slot is filled, and the handler renders
Gather(h) ==
    IF \A i \in 1..Len(h.slots) : h.slots[i] # <<>>
    THEN Finish([h EXCEPT !.slots = <<>>], h.order,
                [i \in 1..Len(h.slots) |-> h.slots[i][1]], Or(h.lang, "en"))
    ELSE h

\* the handler awaits call i (state t) and t has returned
Delivers(h, t) == t.pc = "returned" /\ h.pc \in {"enrich", "trackinfo", "translate"}

\* res.json(body)
Json(body) == [json |-> body]

\* the handler's continuation when call i returns: the enrichment callback of
\* package i fills its slot (order mode), or the result is spliced and rendered
\* (tracking mode), or sent as it is (POST translate)
Deliver(h, i, t) ==
    IF ~Delivers(h, t) THEN h
    ELSE IF h.pc = "translate"
    THEN Render([h EXCEPT !.outcome = <<IF t.result[1].ok THEN "ok" ELSE "failed">>],
                Json(t.result[1]))
    ELSE IF h.pc = "enrich"
    THEN Gather([h EXCEPT
            !.slots[i] = <<Enriched(h.order[1].packages[i], t.result[1])>>,
            !.outcome[i] = IF t.result[1].ok THEN "ok" ELSE "failed"])
    ELSE Finish([h EXCEPT !.outcome = <<IF t.result[1].ok THEN "ok" ELSE "failed">>],
                h.order, <<SplicedPackage(h.order[1], h.tracking, t.result[1])>>,
                Or(h.lang, "en"))

(***************************************************************************)
(* Actions.                                                                *)
(***************************************************************************)
\* An I/O completion resumes call i, which runs to its next await (state t).  If
\* it returned, the awaiting continuation of the handler runs in the same turn.
Resume(i, t) ==
    /\ handler' = Both(LAMBDA h : Deliver(h, i, t), handler)
    /\ task' = [task EXCEPT ![i] = IF Delivers(handler, t) THEN IdleTask ELSE t]

ChangeInfoReturn(i) ==
    /\ task[i].pc = "changeinfo"
    /\ \E resp \in ChangeInfoResponses : Resume(i, AfterChangeInfo(task[i], resp))
    /\ UNCHANGED <<TRACK17_KEY, registered, catalogue, shopVars>>

SettleDone(i) ==
    /\ task[i].pc = "settle"
    /\ Resume(i, AfterSettle(task[i]))
    /\ UNCHANGED <<TRACK17_KEY, registered, catalogue, shopVars>>

FetchReturn(i) ==
    /\ task[i].pc = "fetch"
    /\ \E resp \in FetchResponses(CatalogueItems(catalogue)) :
          Resume(i, AfterFetch(task[i], resp))
    /\ UNCHANGED <<TRACK17_KEY, registered, catalogue, shopVars>>

RegisterReturn(i) ==
    /\ task[i].pc = "register"
    /\ \E resp \in RegisterResponses(task[i].tracking) :
          /\ Resume(i, AfterRegister(task[i], resp))
          /\ registered' = IF resp = RegisterAccepted
                           THEN registered \cup {task[i].tracking} ELSE registered
    /\ UNCHANGED <<TRACK17_KEY, catalogue, shopVars>>

DelayDone(i) ==
    /\ task[i].pc = "delay"
    /\ Resume(i, AfterDelay(task[i]))
    /\ UNCHANGED <<TRACK17_KEY, registered, catalogue, shopVars>>

PollReturn(i) ==
    /\ task[i].pc = "poll"
    /\ \E resp \in FetchResponses(CatalogueItems(catalogue)) :
          Resume(i, AfterPoll(task[i], resp))
    /\ UNCHANGED <<TRACK17_KEY, registered, catalogue, shopVars>>

TranslateReturn(i) ==
    /\ task[i].pc = "translate"
    /\ \E k \in Waiting(task[i].work), ans \in TranslateAnswers :
          Resume(i, AfterTranslate(task[i], k, ans))
    /\ UNCHANGED <<TRACK17_KEY, registered, catalogue, shopVars>>

\* a caller invokes getTrackingInfo(tracking, lang)
Invoke(i) ==
    /\ task[i].pc \in {"idle", "returned"}
    /\ \E tracking \in TrackingNumbers \cup {MOCK_TRACKING}, lang \in Langs :
          task' = [task EXCEPT ![i] = Start(TRACK17_KEY, tracking, lang)]
    /\ UNCHANGED <<TRACK17_KEY, registered, catalogue, shopVars, handler>>

\* a caller asks for the events as the carrier wrote them (lang = null)
InvokeOriginal(i) ==
    /\ task[i].pc \in {"idle", "returned"}
    /\ \E tracking \in TrackingNumbers :
          task' = [task EXCEPT ![i] = Start(TRACK17_KEY, tracking, "")]
    /\ UNCHANGED <<TRACK17_KEY, registered, catalogue, shopVars, handler>>

\* the language codes a caller may pass: the carrier codes of the table,
\* translator codes, and names that Object.prototype defines
LangCodes ==
    {"1033", "2052", "1036", "1034", "1031", "1040", "1041", "en", "fr", "zh-CN", "1035"}
    \cup InheritedKeys

InvokeCoded(i) ==
    /\ task[i].pc \in {"idle", "returned"}
    /\ \E lang \in LangCodes :
          task' = [task EXCEPT ![i] = Start(TRACK17_KEY, "TN1", lang)]
    /\ UNCHANGED <<TRACK17_KEY, registered, catalogue, shopVars, handler>>

Engine(i) ==
    \/ ChangeInfoReturn(i)
    \/ SettleDone(i)
    \/ FetchReturn(i)
    \/ RegisterReturn(i)
    \/ DelayDone(i)
    \/ PollReturn(i)
    \/ TranslateReturn(i)

(***************************************************************************)
(* The shop's orders, as the commerce platform may return them.            *)
(***************************************************************************)
ItemA == [id |-> 11, name |-> "A", quantity |-> 2, price |-> "10.00",
          product_id |-> "P1", variant_id |-> "V1"]
ItemB == [id |-> 12, name |-> "B", quantity |-> 1, price |-> "5.00",
          product_id |-> "P2", variant_id |-> "V2"]

FulfillmentId(k) == CASE k = 1 -> "F1" [] k = 2 -> "F2" [] k = 3 -> "F3" [] OTHER -> "F4"

\* fulfillment k ships one unit of A (k odd) or of B (k even)
Fulfillment(k) ==
    [id |-> FulfillmentId(k),
     tracking_number |-> IF k % 2 = 1 THEN "TN1" ELSE "TN2",
     tracking_company |-> "DHL", tracking_url |-> "https://t/x",
     line_items |-> << [id |-> IF k % 2 = 1 THEN 11 ELSE 12, quantity |-> 1] >>]

Untracked == [id |-> "F0", line_items |-> << [id |-> 11, quantity |-> 1] >>]

OrderEmails ==
    { [email |-> <<"a", "@">>],
      [email |-> <<"B", "@">>, contact_email |-> <<"A", "@">>] }

RequestEmails == { <<"a", "@">>, <<"A", "@">>, <<"c", "@">> }

RestOrder(mail, fulfillments) ==
    [id |-> "O1", name |-> "#1001", currency |-> "USD", created_at |-> "2026-01-18",
     line_items |-> <<ItemB, ItemA>>, fulfillments |-> fulfillments]
    @@ mail

\* a second shipment of the unit of B that Fulfillment(2) ships (the first one
\* was cancelled or lost): the API lists both fulfillments
Reshipment ==
    [id |-> "F9", tracking_number |-> "TN1", tracking_company |-> "DHL",
     tracking_url |-> "https://t/x", line_items |-> << [id |-> 12, quantity |-> 1] >>]

\* an order of the single line item, with one fulfillment
OneItemOrder(item, fulfillment) ==
    [RestOrder([email |-> <<"a", "@">>], <<fulfillment>>) EXCEPT !.line_items = <<item>>]

RawOrders ==
    { RestOrder(mail, <<>>) : mail \in OrderEmails }
    \cup { RestOrder([email |-> <<"a", "@">>], [k \in 1..n |-> Fulfillment(k)]) :
              n \in 1..MaxFulfillments }
    \cup { RestOrder([email |-> <<"a", "@">>], <<Untracked, Fulfillment(2)>>),
           RestOrder([email |-> <<"a", "@">>], <<Fulfillment(2), Reshipment>>),
           OneItemOrder(ItemA, Fulfillment(1)),
           OneItemOrder(ItemB, Fulfillment(2)) }

OrdersResponses ==
    { Thrown("Request failed with status code 500"), Returned([errors |-> "Not Found"]) }
    \cup { Returned([orders |-> os]) : os \in SeqsUpTo(RawOrders, 1) }
    \cup { Returned([orders |-> <<o1, o2>>]) :
              o1 \in {o \in RawOrders : o.fulfillments = <<>>}, o2 \in RawOrders }

ProductsResponses ==
    { Thrown("Request failed with status code 403"),
      Returned([products |-> <<>>]),
      Returned([products |-> << [id |-> "P1", image |-> [src |-> "img-P1"],
                                 images |-> << [src |-> "img-V1", variant_ids |-> {"V1"}] >>],
                                [id |-> "P2", image |-> [src |-> "img-P2"]] >>]) }

\* the GraphQL node of a REST order
GraphNode(o) ==
    [id |-> Gid("Order", "1"), name |-> o.name, email |-> Str(o, "email"),
     createdAt |-> o.created_at, currencyCode |-> o.currency,
     lineItems |-> [edges |->
        [k \in 1..Len(o.line_items) |->
            [node |-> [id |-> Gid("LineItem", o.line_items[k].name),
                       title |-> o.line_items[k].name,
                       quantity |-> o.line_items[k].quantity,
                       originalUnitPrice |-> o.line_items[k].price,
                       product |-> [id |-> Gid("Product", o.line_items[k].product_id)]]]]],
     fulfillments |->
        [k \in 1..Len(o.fulfillments) |->
            [id |-> Gid("Fulfillment", o.fulfillments[k].id),
             trackingInfo |->
                IF Has(o.fulfillments[k], "tracking_number")
                THEN << [number |-> o.fulfillments[k].tracking_number,
                         company |-> o.fulfillments[k].tracking_company,
                         url |-> o.fulfillments[k].tracking_url] >>
                ELSE <<>>,
             fulfillmentLineItems |-> [edges |->
                [j \in 1..Len(o.fulfillments[k].line_items) |->
                    [node |-> [lineItem |-> [id |-> Gid("LineItem",
                                   IF o.fulfillments[k].line_items[j].id = 11 THEN "A" ELSE "B")],
                               quantity |-> o.fulfillments[k].line_items[j].quantity]]]]]]]

\* A JSON number in an answer is the token Num(digits); a JSON string is the
\* string itself, and no tracking number of the model starts with "num:".  On
\* these tokens === is equality, and String(v) is AsString(v).
NumberDigits == {"1001"}
Num(digits) == "num:" \o digits

AsString(v) ==
    IF \E d \in NumberDigits : v = Num(d) THEN CHOOSE d \in NumberDigits : v = Num(d)
    ELSE v

\* an order whose fulfillment carries its tracking number as a JSON number
NumberedOrder ==
    OneItemOrder(ItemA, [Fulfillment(1) EXCEPT !.tracking_number = Num("1001")])

GraphqlResponses ==
    { Thrown("Request failed with status code 500"),
      Returned([errors |-> "Throttled"]),
      Returned([data |-> [orders |-> [edges |-> <<>>]]]) }
    \cup { Returned([data |-> [orders |-> [edges |-> <<[node |-> GraphNode(o)]>>]]]) :
              o \in RawOrders \cup {NumberedOrder} }

(***************************************************************************)
(* The commerce lookups as a process: getOrderByNameAndEmail and           *)
(* findOrderByTrackingNumber, suspended at their axios calls.              *)
(***************************************************************************)
ShopReturn(sh, res) == [sh EXCEPT !.pc = "returned", !.result = <<res>>]

\* getOrderByNameAndEmail up to its first await
StartOrderLookup(token, domain, orderName, email) ==
    LET sh == [IdleShop EXCEPT !.orderName = orderName, !.email = email]
    IN  IF token = "" \/ orderName = MOCK_ORDER_NAME THEN ShopReturn(sh, getMockOrder(orderName))
        ELSE IF domain = "" THEN ShopReturn(sh, [ok |-> FALSE, error |-> "Shop Domain not configured"])
        ELSE [sh EXCEPT !.pc = "orders"]

\* [...new Set(order.line_items.map(item => item.product_id).filter(Boolean))]
ProductIds(order) ==
    {order.line_items[i].product_id : i \in 1..Len(order.line_items)} \ {""}

\* getOrderByNameAndEmail without its catch: an exception of the orders call escapes
AfterOrdersUncaught(sh, resp) ==
    IF resp.throw THEN [sh EXCEPT !.pc = "raised"]
    ELSE IF ~Has(resp.data, "orders")
    THEN ShopReturn(sh, [ok |-> FALSE, error |-> "Failed to fetch order from Shopify."])
    ELSE LET order == FindByEmail(resp.data.orders, sh.email, 1)
         IN IF order = <<>>
            THEN ShopReturn(sh, [ok |-> FALSE,
                                 error |-> "Order not found or email does not match."])
            ELSE IF ProductIds(order[1]) # {}
            THEN [sh EXCEPT !.pc = "products", !.raw = order]
            ELSE ShopReturn([sh EXCEPT !.raw = order], processOrderData(order[1], <<>>))

\* the orders call of getOrderByNameAndEmail returns
AfterOrders(sh, resp) ==
    IF resp.throw \/ ~Has(resp.data, "orders")
    THEN ShopReturn(sh, [ok |-> FALSE, error |-> "Failed to fetch order from Shopify."])
    ELSE LET order == FindByEmail(resp.data.orders, sh.email, 1)
         IN IF order = <<>>
            THEN ShopReturn(sh, [ok |-> FALSE,
                                 error |-> "Order not found or email does not match."])
            ELSE IF ProductIds(order[1]) # {}
            THEN [sh EXCEPT !.pc = "products", !.raw = order]
            ELSE ShopReturn([sh EXCEPT !.raw = order], processOrderData(order[1], <<>>))

\* the products call of processOrderData returns
AfterProducts(sh, resp) ==
    LET products == IF resp.throw \/ ~Has(resp.data, "products") THEN <<>>
                    ELSE resp.data.products
    IN  ShopReturn(sh, processOrderData(sh.raw[1], products))

\* findOrderByTrackingNumber up to its first await
StartTrackingLookup(token, domain, trackingNumber) ==
    LET sh == [IdleShop EXCEPT !.tracking = trackingNumber]
    IN  IF token = "" \/ domain = ""
        THEN IF trackingNumber = MOCK_ORDER_TRACKING
             THEN ShopReturn(sh, getMockOrder("#EVO7103"))
             ELSE ShopReturn(sh, [ok |-> FALSE, error |-> "Shopify Configuration Missing"])
        ELSE [sh EXCEPT !.pc = "graphql"]

\* the GraphQL call returns; raw keeps the order node of the answer, if it has one
AfterGraphql(sh, resp) ==
    LET found == ~resp.throw /\ Has(resp.data, "data") /\ Has(resp.data.data, "orders")
                 /\ Len(resp.data.data.orders.edges) > 0
    IN  ShopReturn([sh EXCEPT !.raw = IF found THEN <<resp.data.data.orders.edges[1].node>>
                                      ELSE <<>>],
                   findOrderFromResponse(resp, sh.tracking))

OrdersReturn ==
    /\ shop.pc = "orders"
    /\ \E resp \in OrdersResponses : shop' = AfterOrders(shop, resp)
    /\ UNCHANGED <<engineVars, SHOPIFY_ACCESS_TOKEN, SHOP_DOMAIN, SHOPIFY_APP_SECRET, handler>>

ProductsReturn ==
    /\ shop.pc = "products"
    /\ \E resp \in ProductsResponses : shop' = AfterProducts(shop, resp)
    /\ UNCHANGED <<engineVars, SHOPIFY_ACCESS_TOKEN, SHOP_DOMAIN, SHOPIFY_APP_SECRET, handler>>

GraphqlReturn ==
    /\ shop.pc = "graphql"
    /\ \E resp \in GraphqlResponses : shop' = AfterGraphql(shop, resp)
    /\ UNCHANGED <<engineVars, SHOPIFY_ACCESS_TOKEN, SHOP_DOMAIN, SHOPIFY_APP_SECRET, handler>>

\* the query strings of the requests
Parameters ==
    [tracking : {""} \cup TrackingNumbers \cup NumberDigits \cup {MOCK_ORDER_TRACKING},
     order : {"", "#1001", MOCK_ORDER_NAME},
     email : {<<>>} \cup RequestEmails,
     lang : {"", "original"}]

\* the signatures a request may carry: none, the proxy's, one made with another
\* key, one for other parameters, and a string of another length
Signatures(params) ==
    { NoSignature,
      createHmac("shpss", SignedMessage(params)),
      createHmac("guess", SignedMessage(params)),
      createHmac("shpss", <<>>),
      [len |-> 8, digest |-> <<"shpss", SignedMessage(params)>>] }

Queries ==
    UNION { { params @@ [signature |-> sig] : sig \in Signatures(params) } :
            params \in Parameters }

\* a handler that refuses the requests whose signature it could not verify
BegunGated(q, isShopifyRequest, idle) ==
    LET isOrderSearch == q.order # "" /\ q.email # <<>>
        isTrackingSearch == q.tracking # ""
        h == [idle EXCEPT !.lang = q.lang,
                          !.log = <<IF isShopifyRequest THEN "Signature verified"
                                    ELSE "Signature verification failed">>]
    IN  IF ~isShopifyRequest THEN Render(h, ErrorView("Unauthorized"))
        ELSE IF ~isOrderSearch /\ ~isTrackingSearch
        THEN Render(h, TrackView(<<>>, <<>>, FALSE, ""))
        ELSE IF isOrderSearch THEN [h EXCEPT !.pc = "order"]
        ELSE [h EXCEPT !.pc = "verify", !.tracking = q.tracking]

\* the handler up to its first await, for the outcome of the security check
Begun(q, isShopifyRequest, idle) ==
    LET isOrderSearch == q.order # "" /\ q.email # <<>>
        isTrackingSearch == q.tracking # ""
        h == [idle EXCEPT !.lang = q.lang,
                          !.log = <<IF isShopifyRequest THEN "Signature verified"
                                    ELSE "Signature verification failed">>]
    IN  IF ~isOrderSearch /\ ~isTrackingSearch
        THEN Render(h, TrackView(<<>>, <<>>, FALSE, ""))
        ELSE IF isOrderSearch THEN [h EXCEPT !.pc = "order"]
        ELSE [h EXCEPT !.pc = "verify", !.tracking = q.tracking]

\* a request arrives; the handler runs to its first await
Request ==
    /\ handler.pc = "idle"
    /\ shop.pc = "idle"
    /\ \E q \in Queries :
          LET isShopifyRequest == verifyShopifySignature(q, SHOPIFY_APP_SECRET)
              begun == Begun(q, isShopifyRequest, IdleHandler)
          IN  /\ handler' = [begun EXCEPT !.twin = <<Begun(q, ~isShopifyRequest, IdleRun)>>]
              /\ shop' = IF begun.pc = "order"
                         THEN StartOrderLookup(SHOPIFY_ACCESS_TOKEN, SHOP_DOMAIN,
                                               q.order, q.email)
                         ELSE IF begun.pc = "verify"
                         THEN StartTrackingLookup(SHOPIFY_ACCESS_TOKEN, SHOP_DOMAIN,
                                                  q.tracking)
                         ELSE shop
    /\ task' = [i \in Tasks |-> IdleTask]
    /\ UNCHANGED <<TRACK17_KEY, registered, catalogue, SHOPIFY_ACCESS_TOKEN, SHOP_DOMAIN, SHOPIFY_APP_SECRET>>

\* order mode: getOrderByNameAndEmail has returned; fan out over the packages
AfterOrderLookup ==
    /\ handler.pc = "order"
    /\ shop.pc = "returned"
    /\ LET orderResult == shop.result[1]
       IN IF ~orderResult.ok
          THEN /\ handler' = Both(LAMBDA h : Render(h, ErrorView(Or(Str(orderResult, "error"),
                                                                    "Order not found"))),
                                   handler)
               /\ task' = task
          ELSE LET packages == orderResult.order.packages
                   started == [i \in 1..Len(packages) |->
                                 Start(TRACK17_KEY, packages[i].tracking_number,
                                       TargetLang(handler.lang))]
                   inFlight(i) == i <= Len(packages) /\ Trackable(packages[i])
                                  /\ started[i].pc # "returned"
               IN /\ handler' = Both(LAMBDA h : Gather([h EXCEPT
                        !.pc = "enrich",
                        !.order = <<orderResult.order>>,
                        !.slots = [i \in 1..Len(packages) |->
                                     IF ~Trackable(packages[i])
                                     THEN <<NotEnriched(packages[i])>>
                                     ELSE IF started[i].pc = "returned"
                                     THEN <<Enriched(packages[i], started[i].result[1])>>
                                     ELSE <<>>],
                        !.outcome = [i \in 1..Len(packages) |->
                                     IF ~Trackable(packages[i]) THEN "skipped"
                                     ELSE IF started[i].pc # "returned" THEN "pending"
                                     ELSE IF started[i].result[1].ok THEN "ok"
                                     ELSE "failed"]]), handler)
                  /\ task' = [i \in Tasks |-> IF inFlight(i) THEN started[i] ELSE IdleTask]
    /\ shop' = IdleShop
    /\ UNCHANGED <<TRACK17_KEY, registered, catalogue, SHOPIFY_ACCESS_TOKEN, SHOP_DOMAIN, SHOPIFY_APP_SECRET>>

\* a handler that starts getTrackingInfo before looking at the lookup's result
AfterVerifyCallsFirst ==
    /\ handler.pc = "verify"
    /\ shop.pc = "returned"
    /\ LET orderResult == shop.result[1]
           started == Start(TRACK17_KEY, handler.tracking, TargetLang(handler.lang))
           wait(h) == [h EXCEPT !.pc = "trackinfo",
                                !.order = IF orderResult.ok THEN <<orderResult.order>>
                                          ELSE <<>>]
           waiting == wait(handler)
       IN IF ~orderResult.ok
          THEN /\ handler' = Both(LAMBDA h : Render(h, ErrorView(
                    "We could not find an order with this tracking number in our system.")),
                    handler)
               /\ task' = [task EXCEPT ![1] = IF started.pc = "returned"
                                              THEN IdleTask ELSE started]
          ELSE /\ handler' = Both(LAMBDA h : Deliver(wait(h), 1, started), handler)
               /\ task' = [task EXCEPT ![1] = IF Delivers(waiting, started)
                                              THEN IdleTask ELSE started]
    /\ shop' = IdleShop
    /\ UNCHANGED <<TRACK17_KEY, registered, catalogue, SHOPIFY_ACCESS_TOKEN, SHOP_DOMAIN, SHOPIFY_APP_SECRET>>

\* tracking mode: findOrderByTrackingNumber has returned
AfterVerify ==
    /\ handler.pc = "verify"
    /\ shop.pc = "returned"
    /\ LET orderResult == shop.result[1]
           started == Start(TRACK17_KEY, handler.tracking, TargetLang(handler.lang))
           wait(h) == [h EXCEPT !.pc = "trackinfo", !.order = <<orderResult.order>>]
           waiting == wait(handler)
       IN IF ~orderResult.ok
          THEN /\ handler' = Both(LAMBDA h : Render(h, ErrorView(
                    "We could not find an order with this tracking number in our system.")),
                    handler)
               /\ task' = task
          ELSE /\ handler' = Both(LAMBDA h : Deliver(wait(h), 1, started), handler)
               /\ task' = [task EXCEPT ![1] = IF Delivers(waiting, started)
                                              THEN IdleTask ELSE started]
    /\ shop' = IdleShop
    /\ UNCHANGED <<TRACK17_KEY, registered, catalogue, SHOPIFY_ACCESS_TOKEN, SHOP_DOMAIN, SHOPIFY_APP_SECRET>>

\* the bodies of the requests to POST /proxy/track/translate
Bodies == [tracking : {"", "TN1", "TN2"}, lang : {"", "en", "original"}]

\* a POST /proxy/track/translate request arrives; the handler runs to its await
TranslateRequest ==
    /\ handler.pc = "idle"
    /\ shop.pc = "idle"
    /\ \E body \in Bodies :
          LET h == [IdleHandler EXCEPT !.tracking = body.tracking, !.lang = body.lang]
              targetLang == IF body.lang = "original" THEN "" ELSE body.lang
              started == Start(TRACK17_KEY, body.tracking, targetLang)
              waiting == [h EXCEPT !.pc = "translate"]
          IN  IF body.tracking = "" \/ body.lang = ""
              THEN /\ handler' = Render(h, Json([ok |-> FALSE,
                                     error |-> "Missing tracking number or language code"]))
                   /\ task' = [i \in Tasks |-> IdleTask]
              ELSE /\ handler' = Deliver(waiting, 1, started)
                   /\ task' = [i \in Tasks |->
                                 IF i = 1 /\ ~Delivers(waiting, started)
                                 THEN started ELSE IdleTask]
    /\ UNCHANGED <<TRACK17_KEY, registered, catalogue, shopVars>>

\* the engine on its own: a caller invokes getTrackingInfo directly, one call at a
\* time (as the POST translate route and the test script do)
Init ==
    /\ TRACK17_KEY \in {"", PLACEHOLDER_KEY, "key-17"}
    /\ registered = {}
    /\ catalogue = "all"
    /\ task = [i \in Tasks |-> IdleTask]
    /\ SHOPIFY_ACCESS_TOKEN = ""
    /\ SHOP_DOMAIN = ""
    /\ SHOPIFY_APP_SECRET = ""
    /\ shop = IdleShop
    /\ handler = IdleHandler

Next == Invoke(1) \/ Engine(1)

Spec == Init /\ [][Next]_vars

\* the engine asked for untranslated events of payloads in every script
InitDetect ==
    /\ TRACK17_KEY = "key-17"
    /\ registered = {}
    /\ catalogue = "texts"
    /\ task = [i \in Tasks |-> IdleTask]
    /\ SHOPIFY_ACCESS_TOKEN = ""
    /\ SHOP_DOMAIN = ""
    /\ SHOPIFY_APP_SECRET = ""
    /\ shop = IdleShop
    /\ handler = IdleHandler

NextDetect ==
    \/ InvokeOriginal(1)
    \/ FetchReturn(1)
    \/ RegisterReturn(1)
    \/ DelayDone(1)
    \/ PollReturn(1)

SpecDetect == InitDetect /\ [][NextDetect]_vars

\* two callers at once: calls 1 and 2 run interleaved against an aggregator that
\* monitors no number yet
Pair == {1, 2}

InitPair ==
    /\ TRACK17_KEY = "key-17"
    /\ registered = {}
    /\ catalogue = "sample"
    /\ task = [i \in Tasks |-> IdleTask]
    /\ SHOPIFY_ACCESS_TOKEN = ""
    /\ SHOP_DOMAIN = ""
    /\ SHOPIFY_APP_SECRET = ""
    /\ shop = IdleShop
    /\ handler = IdleHandler

PairStep(i) ==
    \/ InvokeOriginal(i)
    \/ FetchReturn(i)
    \/ RegisterReturn(i)
    \/ DelayDone(i)
    \/ PollReturn(i)

NextPair == \E i \in Pair : PairStep(i)

SpecPair == InitPair /\ [][NextPair]_vars

\* the engine asked for translations into every kind of language code
InitCoded ==
    /\ TRACK17_KEY = "key-17"
    /\ registered = {}
    /\ catalogue = "sample"
    /\ task = [i \in Tasks |-> IdleTask]
    /\ SHOPIFY_ACCESS_TOKEN = ""
    /\ SHOP_DOMAIN = ""
    /\ SHOPIFY_APP_SECRET = ""
    /\ shop = IdleShop
    /\ handler = IdleHandler

NextCoded == InvokeCoded(1) \/ Engine(1)

SpecCoded == InitCoded /\ [][NextCoded]_vars

\* the whole service handling one request to GET /proxy/track; the aggregator may
\* already monitor a number from earlier requests
InitResolve ==
    /\ TRACK17_KEY \in {"", PLACEHOLDER_KEY, "key-17"}
    /\ registered \in {{}, {"TN1"}}
    /\ catalogue = "sample"
    /\ task = [i \in Tasks |-> IdleTask]
    /\ SHOPIFY_ACCESS_TOKEN \in {"", "shpat"}
    /\ SHOP_DOMAIN \in {"", "shop.myshopify.com"}
    /\ SHOPIFY_APP_SECRET = ""
    /\ shop = IdleShop
    /\ handler = IdleHandler

NextResolve ==
    \/ Request
    \/ OrdersReturn
    \/ ProductsReturn
    \/ GraphqlReturn
    \/ AfterOrderLookup
    \/ AfterVerify
    \/ \E i \in Tasks : Engine(i)

SpecResolve == InitResolve /\ [][NextResolve]_vars

\* the same service behind the app proxy: the shared secret may be configured, and
\* then the security check tells the proxy's requests from the others
InitSigned ==
    /\ TRACK17_KEY = "key-17"
    /\ registered = {}
    /\ catalogue = "sample"
    /\ task = [i \in Tasks |-> IdleTask]
    /\ SHOP_DOMAIN = "shop.myshopify.com"
    \* a shop whose secret was left as shipped, or an installation that has a
    \* secret or none and serves the demo order
    /\ \/ SHOPIFY_ACCESS_TOKEN = "shpat" /\ SHOPIFY_APP_SECRET = PLACEHOLDER_SECRET
       \/ SHOPIFY_ACCESS_TOKEN = "" /\ SHOPIFY_APP_SECRET \in {"", "shpss"}
    /\ shop = IdleShop
    /\ handler = IdleHandler

SpecSigned == InitSigned /\ [][NextResolve]_vars

\* the server with both its routes, in a shop that has its credentials
InitRoutes ==
    /\ TRACK17_KEY = "key-17"
    /\ registered = {}
    /\ catalogue = "sample"
    /\ task = [i \in Tasks |-> IdleTask]
    /\ SHOPIFY_ACCESS_TOKEN = "shpat"
    /\ SHOP_DOMAIN = "shop.myshopify.com"
    /\ SHOPIFY_APP_SECRET = ""
    /\ shop = IdleShop
    /\ handler = IdleHandler

NextRoutes ==
    \/ TranslateRequest
    \/ NextResolve

SpecRoutes == InitRoutes /\ [][NextRoutes]_vars

(***************************************************************************)
(* Properties of getTrackingInfo, stated of the call of Spec (task 1).     *)
(***************************************************************************)
call == task[1]

\* how many times the call has started operation name
Ops(t, name) == Cardinality({k \in 1..Len(t.calls) : t.calls[k].op = name})

\* the positions in calls of the poll fetches: the fetches after the register call
PollFetches(t) ==
    {k \in 1..Len(t.calls) :
        /\ t.calls[k].op = "fetch"
        /\ \E r \in 1..(k - 1) : t.calls[r].op = "register"}

CouldNotRegister ==
    [ok |-> FALSE, error |-> "Tracking number not found and could not be registered."]

\* the register call was answered with a rejection carrying the given code
RejectedWith(resp, c) ==
    /\ ~resp.throw
    /\ Has(resp.data, "data")
    /\ Has(resp.data.data, "rejected")
    /\ \E k \in 1..Len(resp.data.data.rejected) :
          /\ Has(resp.data.data.rejected[k], "error")
          /\ resp.data.data.rejected[k].error.code = c

\* C1: a call whose first fetch found no accepted entry, whose registration was
\* accepted and whose three polls each returned an answer without any event
\* returns ok:true, status "Registered", carrier "Detecting..." and exactly one
\* (placeholder) event.
C1_RegisteredAfterEmptyPolls ==
    ( /\ call.pc = "returned"
      /\ call.first = "absent"
      /\ call.regResponse = <<RegisterAccepted>>
      /\ Len(call.polls) = Len(waitTimes)
      /\ \A k \in 1..Len(call.polls) : call.polls[k] = "none" )
    => /\ call.result[1].ok
       /\ call.result[1].status = "Registered"
       /\ call.result[1].carrier = "Detecting..."
       /\ Len(call.result[1].events) = 1

\* C2: in the poll loop, a poll whose answer carries at least one event, in the
\* modern or in the legacy shape, is the last one: no further delay or fetch is
\* started after it, and the call goes on to normalise that answer.
C2_PollStopsAtFirstEvents ==
    \A k \in 1..Len(call.polls) :
        call.polls[k] \in {"modern", "legacy"}
        => /\ k = Len(call.polls)
           /\ call.pc \in {"translate", "returned"}
           /\ Cardinality(PollFetches(call)) = k
           /\ (call.pc = "returned" => call.result[1].status # "Registered")

\* the translate calls the callbacks of translateEvents may still wait for
RECURSIVE TranslateRank(_)
TranslateRank(work) ==
    IF work = <<>> THEN 0
    ELSE (CASE Head(work).at = "desc" -> 2 [] Head(work).at = "loc" -> 1 [] OTHER -> 0)
         + TranslateRank(Tail(work))

\* a bound on the number of awaits the call still has to go through
Rank(t) ==
    CASE t.pc = "changeinfo" -> 2 * MaxEvents + 11
      [] t.pc = "settle" -> 2 * MaxEvents + 10
      [] t.pc = "fetch" -> 2 * MaxEvents + 9
      [] t.pc = "register" -> 2 * MaxEvents + 8
      [] t.pc = "delay" -> 2 * MaxEvents + 9 - 2 * t.wait
      [] t.pc = "poll" -> 2 * MaxEvents + 8 - 2 * t.wait
      [] t.pc = "translate" -> TranslateRank(t.work)
      [] OTHER -> 0

InFlight(t) == t.pc \notin {"idle", "returned"}

\* the counts and the order of the operations started so far
C3_Resources ==
    /\ Ops(call, "setLanguage") <= 1
    /\ Ops(call, "register") <= 1
    /\ Ops(call, "fetch") <= 1 + Len(waitTimes)
    /\ Cardinality(PollFetches(call)) <= Len(waitTimes)
    \* every poll fetch directly follows its own delay of the schedule
    /\ \A k \in PollFetches(call) :
          LET n == Cardinality({j \in PollFetches(call) : j <= k})
          IN  /\ k > 1
              /\ call.calls[k - 1] = Op("delay", waitTimes[n])
    \* a poll is started only once every earlier poll has been answered
    /\ Cardinality(PollFetches(call)) - Len(call.polls)
          = (IF call.pc = "poll" THEN 1 ELSE 0)

\* C3: whatever the aggregator answers, a call in flight can always take its next
\* step and every step brings it closer to its return (so it terminates once
\* every external call returns or fails), and it starts at most 1 setLanguage,
\* 1 register and 4 fetch operations, each poll fetch right after its own delay
\* and after the previous poll was answered.
C3_BoundedSequentialCall ==
    /\ [](C3_Resources /\ (InFlight(call) => ENABLED Engine(1)))
    /\ [][InFlight(call) => Rank(call') < Rank(call)]_vars

C3_Witness ==
    /\ call.pc = "returned"
    /\ Ops(call, "setLanguage") = 1
    /\ Ops(call, "register") = 1
    /\ Ops(call, "fetch") = 4
    /\ call.polls = <<"none", "none", "modern">>

\* C4: once the first fetch found nothing and the register call was refused for a
\* reason other than "already registered", the call has returned ok:false with
\* "Tracking number not found and could not be registered.", without any poll
\* fetch and without a second register.
C4_RefusedRegistrationIsTerminal ==
    ( /\ call.regResponse # <<>>
      /\ call.regResponse[1] \in RegisterRefused )
    => /\ call.first = "absent"
       /\ call.pc = "returned"
       /\ call.result[1] = CouldNotRegister
       /\ call.polls = <<>>
       /\ PollFetches(call) = {}
       /\ Ops(call, "register") = 1
       /\ call.calls[Len(call.calls)].op = "register"

C4_Witness ==
    /\ call.pc = "returned"
    /\ call.regResponse # <<>>
    /\ RejectedWith(call.regResponse[1], NOT_FOUND)
    /\ call.result[1] = CouldNotRegister

\* C5: registerTracking returns ok:true when the aggregator rejects the number
\* with code -18019903, so every register call for a number the aggregator
\* already monitors that gets an answer succeeds, however often it is repeated.
C5_RegisterIsIdempotent ==
    call.regResponse # <<>>
    => /\ RejectedWith(call.regResponse[1], ALREADY_REGISTERED) => call.regResult[1].ok
       /\ (call.tracking \in registered /\ ~call.regResponse[1].throw)
             => /\ call.regResult[1].ok
                /\ call.pc # "returned" \/ call.result[1] # CouldNotRegister

C5_Witness ==
    /\ call.regResponse = <<RegisterAlready>>
    /\ call.tracking \in registered
    /\ call.regResult = << [ok |-> TRUE] >>
    /\ call.pc = "delay"

\* C6: no exception leaves getTrackingInfo: whatever setLanguage, fetch, register,
\* the polls and translate answer (success, rejection, malformed body, network
\* exception), the call is never left with a raised exception, and what it
\* returns is an object whose ok field is a boolean.
C6_NeverThrows ==
    /\ call.pc # "raised"
    /\ call.pc = "returned"
          => /\ Len(call.result) = 1
             /\ Has(call.result[1], "ok")
             /\ call.result[1].ok \in BOOLEAN

C6_Witness ==
    /\ call.pc = "returned"
    /\ call.langAnswer = "threw"
    /\ call.regResponse = <<RegisterAccepted>>
    /\ call.polls = <<"none", "malformed">>
    /\ call.result[1] = ServiceError

\* C7: a network exception at setLanguage, at the first fetch, at register or
\* at a poll fetch makes the call return ok:false, "Service Error".
C7_AnyExceptionIsServiceError ==
    ( /\ call.pc = "returned"
      /\ \/ call.langAnswer = "threw"
         \/ call.first = "threw"
         \/ call.regResponse # <<>> /\ call.regResponse[1].throw
         \/ \E k \in 1..Len(call.polls) : call.polls[k] = "threw" )
    => call.result[1] = ServiceError

(***************************************************************************)
(* Properties of GET /proxy/track, stated of SpecResolve.                  *)
(***************************************************************************)
NotInOurSystem ==
    ErrorView("We could not find an order with this tracking number in our system.")

\* no getTrackingInfo call is in flight or has started any carrier operation
NoCarrierCall == \A i \in Tasks : task[i] = IdleTask

\* C8: in the tracking-number path no carrier operation is started while the
\* commerce lookup is pending; when the lookup does not confirm the number, the
\* handler renders "We could not find an order with this tracking number in our
\* system." and no carrier operation is started then or later, whatever the
\* aggregator monitors and whether or not the carrier key is configured.
C8_UnverifiedNumberIsNotTracked ==
    /\ [](handler.pc = "verify" => NoCarrierCall)
    /\ [](handler.rendered = <<NotInOurSystem>> => NoCarrierCall)
    /\ [][(handler.pc = "verify" /\ shop.pc = "returned" /\ ~shop.result[1].ok)
             => /\ handler'.pc = "done"
                /\ handler'.rendered = <<NotInOurSystem>>
                /\ NoCarrierCall']_vars

C8_Witness ==
    /\ handler.pc = "done"
    /\ handler.tracking = "TN1"
    /\ handler.rendered = <<NotInOurSystem>>
    /\ registered = {"TN1"}
    /\ TRACK17_KEY = "key-17"
    /\ SHOPIFY_ACCESS_TOKEN # ""
    /\ SHOP_DOMAIN # ""

\* the order-level email fields of the order a lookup returned
EmailsOfReturned(sh) ==
    IF sh.raw # <<>>
    THEN {sh.raw[1][f] : f \in {"email", "contact_email"} \cap DOMAIN sh.raw[1]}
    ELSE {sh.result[1].order.email}

\* C9: getOrderByNameAndEmail returns ok:true only if the email of the request
\* equals, case-insensitively, the email or the contact_email of the order it
\* returns, whatever the order name.
C9_OrderOnlyForMatchingEmail ==
    (handler.pc = "order" /\ shop.pc = "returned" /\ shop.result[1].ok)
    => \E e \in EmailsOfReturned(shop) : toLowerCase(e) = toLowerCase(shop.email)

\* the order+email path has rendered the merged view
OrderDone == handler.pc = "done" /\ handler.tracking = "" /\ handler.order # <<>>

\* merged keeps the fields of pkg that enrichment does not set
OwnFields(pkg, merged) ==
    \A f \in DOMAIN pkg \ {"status", "carrier", "events", "original_language"} :
        f \in DOMAIN merged /\ merged[f] = pkg[f]

C10_Merged ==
    OrderDone
    => LET pkgs == handler.order[1].packages
           view == handler.rendered[1]
       IN  /\ view.view = "track"
           /\ Len(view.packages) = Len(pkgs)
           /\ Len(handler.outcome) = Len(pkgs)
           /\ \A i \in 1..Len(pkgs) :
                 /\ OwnFields(pkgs[i], view.packages[i])
                 /\ handler.outcome[i] \in {"ok", "failed", "skipped"}
                 /\ handler.outcome[i] # "ok"
                       => view.packages[i]
                             = [f \in DOMAIN pkgs[i] \cup {"events"} |->
                                   IF f = "events" THEN <<>> ELSE pkgs[i][f]]
                 /\ handler.outcome[i] = "ok"
                       => {"status", "carrier", "events"} \subseteq DOMAIN view.packages[i]

\* C10: in the order+email path the rendered view holds one entry per package of
\* the mapped order, in the order's order and with the package's own fields,
\* whichever enrichment call returns first; a package whose enrichment failed is
\* the package with events = <<>>, a slot once filled is not changed by the other
\* calls and is what the view shows, and the view is the tracking page.
C10_MergePreservesPackages ==
    /\ []C10_Merged
    /\ [][handler.pc = "enrich"
            => \A i \in 1..Len(handler.slots) :
                  handler.slots[i] # <<>>
                  => IF handler'.pc = "enrich"
                     THEN handler'.slots[i] = handler.slots[i]
                     ELSE /\ handler'.pc = "done"
                          /\ handler'.rendered[1].view = "track"
                          /\ handler'.rendered[1].packages[i] = handler.slots[i][1]]_vars

C10_Witness ==
    /\ OrderDone
    /\ handler.outcome = <<"failed", "ok">>
    /\ handler.rendered[1].packages[1].events = <<>>
    /\ Len(handler.rendered[1].packages[2].events) > 0

(***************************************************************************)
(* Properties of processOrderData, stated of the order getOrderByName-     *)
(* AndEmail returns in SpecResolve (shop.raw is the raw order it mapped).  *)
(***************************************************************************)
Mapped ==
    /\ handler.pc = "order"
    /\ shop.pc = "returned"
    /\ shop.raw # <<>>
    /\ shop.result[1].ok

IsSynthetic(p) == p.tracking_number = "Processing"
IsReal(p) == ~IsSynthetic(p)

\* the quantity of line item id in the real packages of the mapped order
ShippedQty(id) == FulfilledCount(SelectSeq(shop.result[1].order.packages, IsReal), id)

\* C11: for every mapped order and every line item, the item's quantities summed
\* over the real packages do not exceed the ordered quantity.
C11_ShippedAtMostOrdered ==
    Mapped
    => \A k \in 1..Len(shop.raw[1].line_items) :
          ShippedQty(shop.raw[1].line_items[k].id) <= shop.raw[1].line_items[k].quantity

\* C12: the mapped order holds a package with tracking_number "Processing" iff
\* some line item's ordered quantity exceeds its quantity in the real packages;
\* when present it is the only one, has status "ordered" and is the last package.
C12_ProcessingIffShortfall ==
    Mapped
    => LET pkgs == shop.result[1].order.packages
           synthetic == {i \in 1..Len(pkgs) : IsSynthetic(pkgs[i])}
           shortfall == \E k \in 1..Len(shop.raw[1].line_items) :
                           shop.raw[1].line_items[k].quantity
                              > ShippedQty(shop.raw[1].line_items[k].id)
       IN  /\ synthetic # {} <=> shortfall
           /\ synthetic # {} => /\ synthetic = {Len(pkgs)}
                                /\ pkgs[Len(pkgs)].status = "ordered"

\* a shortfall next to real packages
C12_Witness ==
    /\ Mapped
    /\ Len(shop.result[1].order.packages) = 3
    /\ IsSynthetic(shop.result[1].order.packages[3])
    /\ ShippedQty(11) = 1
    /\ ShippedQty(12) = 1

C14_QuantitiesAddUp ==
    Mapped
    => LET pkgs == shop.result[1].order.packages
           lines == shop.raw[1].line_items
       IN  /\ \A k \in 1..Len(lines) :
                 ShippedQty(lines[k].id) <= lines[k].quantity
                 => FulfilledCount(pkgs, lines[k].id) = lines[k].quantity
           /\ shop.raw[1] = OneItemOrder(ItemA, Fulfillment(1))
                 => /\ Len(pkgs) = 2
                    /\ IsReal(pkgs[1]) /\ IsSynthetic(pkgs[2])
                    /\ \A i \in 1..2 : /\ Len(pkgs[i].items) = 1
                                       /\ pkgs[i].items[1].id = ItemA.id
                                       /\ pkgs[i].items[1].quantity = 1

C14_Witness ==
    /\ Mapped
    /\ shop.raw[1] = OneItemOrder(ItemA, Fulfillment(1))
    /\ Len(shop.result[1].order.packages) = 2
    /\ shop.result[1].order.packages[2].items[1].quantity = 1

(***************************************************************************)
(* Properties of the result of getTrackingInfo (Spec): language detection, *)
(* translation, the sentinel and the credentials check.                    *)
(***************************************************************************)
\* the call has returned a result built from a carrier payload and translated
Translated == call.pc = "returned" /\ call.norm # <<>>

\* C15: original_language is detectLanguage of the normalised events as they
\* were before translation: a result that was not translated reports the
\* language of its own events, and a translated one the language of the events
\* it had before, whatever the target language and the translator's answers.
C15_LanguageDetectedBeforeTranslation ==
    /\ call.norm # <<>>
          => call.norm[1].original_language = detectLanguage(call.norm[1].events)
    /\ Translated
          => call.result[1].original_language = detectLanguage(call.norm[1].events)
    /\ (call.pc = "returned" /\ call.norm = <<>> /\ Has(call.result[1], "original_language"))
          => /\ call.lang = ""
             /\ call.result[1].original_language = detectLanguage(call.result[1].events)

\* translation changed what detectLanguage reports, original_language is the old one
C15_Witness ==
    /\ Translated
    /\ call.lang = "2052"
    /\ call.failed = {}
    /\ call.result[1].original_language = "Chinese"
    /\ detectLanguage(call.result[1].events) = "English"

\* the text of an event, under either of its two field names
TextOf(event) == Or(Str(event, "description"), Str(event, "desc"))

\* C16: translateEvents returns as many events as it was given, in the same
\* order; an event for which a translate call failed is returned as it was
\* (description and location), and the other events are translated all the same.
C16_FailedEventKeepsOriginalText ==
    Translated
    => LET before == call.norm[1].events
           after == call.result[1].events
       IN  /\ Len(after) = Len(before)
           /\ \A i \in 1..Len(before) :
                 /\ Str(after[i], "time") = Str(before[i], "time")
                 /\ i \in call.failed => after[i] = before[i]
                 /\ i \notin call.failed
                       => /\ NonBlank(TextOf(before[i])) => TextOf(after[i]) \in TranslatedTexts
                          /\ NonBlank(Str(before[i], "location"))
                                => Str(after[i], "location") \in TranslatedTexts

\* C17: a call for the sentinel "TEST123_MOCK" returns the canned result
\* (ok:true, status "In transit", carrier "DemoCarrier", 3 events), whatever the
\* configured key and the language, without starting any external operation.
C17_SentinelIsCanned ==
    (call.pc # "idle" /\ call.tracking = MOCK_TRACKING)
    => /\ call.pc = "returned"
       /\ call.result[1] = MockResult(MOCK_TRACKING)
       /\ call.result[1].ok
       /\ call.result[1].status = "In transit"
       /\ call.result[1].carrier = "DemoCarrier"
       /\ Len(call.result[1].events) = 3
       /\ call.calls = <<>>

C17_Witness ==
    /\ call.pc = "returned"
    /\ call.tracking = MOCK_TRACKING
    /\ call.lang = "2052"
    /\ TRACK17_KEY = PLACEHOLDER_KEY
    /\ call.result[1].ok

\* C18: with the key unset or left at the placeholder value, a call for any
\* other tracking number returns ok:false, "Tracking service not configured",
\* without starting any external operation.
C18_MissingKeyIsTerminal ==
    (call.pc # "idle" /\ call.tracking # MOCK_TRACKING /\ KeyMissing(TRACK17_KEY))
    => /\ call.pc = "returned"
       /\ call.result[1] = [ok |-> FALSE, error |-> "Tracking service not configured"]
       /\ call.calls = <<>>
       /\ registered = {}

C18_Witness ==
    /\ call.pc = "returned"
    /\ call.tracking = "TN1"
    /\ call.lang = "en"
    /\ TRACK17_KEY = PLACEHOLDER_KEY
    /\ call.result[1] = [ok |-> FALSE, error |-> "Tracking service not configured"]

(***************************************************************************)
(* Properties of the tracking-number path of GET /proxy/track              *)
(* (SpecResolve).                                                          *)
(***************************************************************************)
\* the handler has rendered the view of a verified tracking number
TrackingDone ==
    /\ handler.pc = "done"
    /\ handler.tracking # ""
    /\ handler.rendered[1].view = "track"

\* C19: in the tracking-number path, when getTrackingInfo's result is not ok,
\* the carrier of the package in the rendered view is the matched package's own
\* declared carrier name (tracking_company).
C19_FailedLookupShowsDeclaredCarrier ==
    (TrackingDone /\ handler.outcome = <<"failed">>)
    => LET pkg == handler.rendered[1].packages[1]
       IN  pkg.carrier = Str(pkg, "tracking_company")

\* findOrderByTrackingNumber has returned from an answer that holds an order
Verified == shop.pc = "returned" /\ shop.tracking # "" /\ shop.raw # <<>>

\* the order node of the answer has a fulfillment whose tracking number equals
\* the requested one when both are taken as strings
SameAsStrings ==
    \E k \in 1..Len(shop.raw[1].fulfillments) :
        \E j \in 1..Len(shop.raw[1].fulfillments[k].trackingInfo) :
            AsString(Str(shop.raw[1].fulfillments[k].trackingInfo[j], "number"))
               = AsString(shop.tracking)

\* C20: the match of the requested tracking number against the fulfillments of
\* the order found succeeds whenever a fulfillment's number and the requested
\* one are equal as strings, also when one is a number and the other a string.
C20_MatchComparesAsStrings ==
    (Verified /\ SameAsStrings) => shop.result[1].ok

(***************************************************************************)
(* Properties of GET /proxy/track as a whole (SpecSigned, SpecResolve).    *)
(***************************************************************************)
\* a run of the handler without what the security check logged
Observable(h) == [f \in DOMAIN h \ {"log", "twin"} |-> h[f]]

\* C21: at every point of a request the handler is where it would be had the
\* signature check returned the opposite value (same position, same order,
\* same slots, same view and view data, hence the same collaborator calls);
\* the two runs differ in the logged line only.
C21_SignatureOnlyLogged ==
    handler.pc # "idle"
    => /\ handler.twin # <<>>
       /\ Observable(handler) = Observable(handler.twin[1])
       /\ {handler.log, handler.twin[1].log}
             = {<<"Signature verified">>, <<"Signature verification failed">>}

\* a request that failed the check is served the tracking page of its order
C21_Witness ==
    /\ handler.pc = "done"
    /\ SHOPIFY_APP_SECRET = "shpss"
    /\ handler.log = <<"Signature verification failed">>
    /\ handler.rendered[1].view = "track"
    /\ handler.rendered[1].order # <<>>
    /\ Len(handler.rendered[1].packages[1].events) > 0

\* the messages the error view is rendered with
ErrorMessages ==
    { "Order not found or email does not match.", "Failed to fetch order from Shopify.",
      "Shop Domain not configured", "Order not found",
      "We could not find an order with this tracking number in our system.",
      "No tracking information found.", "System Error. Please try again later." }

\* C22: whatever the collaborators answer (ok:false results, exceptions of their
\* network calls), a search request ends with exactly one rendered view, the
\* track view or the error view with a message string: no exception is pending
\* anywhere, the handler renders nothing before it is done and exactly one view
\* when it is, and until then it waits for a collaborator that is still running
\* or has returned (never for one that failed).
C22_EveryOutcomeRendersOneView ==
    /\ shop.pc # "raised" /\ \A i \in Tasks : task[i].pc # "raised"
    /\ handler.pc # "done" => handler.rendered = <<>>
    /\ handler.pc = "done"
          => /\ Len(handler.rendered) = 1
             /\ handler.rendered[1].view \in {"track", "error"}
             /\ handler.rendered[1].view = "error"
                   => handler.rendered[1].message \in ErrorMessages
    /\ handler.pc \in {"order", "verify"}
          => shop.pc \in {"orders", "products", "graphql", "returned"}
    /\ handler.pc \in {"enrich", "trackinfo"}
          => \E i \in Tasks : task[i].pc \notin {"idle", "returned", "raised"}

\* the orders call failed and the request ended with the error view
C22_Witness ==
    /\ handler.pc = "done"
    /\ handler.rendered = <<ErrorView("Failed to fetch order from Shopify.")>>
    /\ SHOPIFY_ACCESS_TOKEN # "" /\ SHOP_DOMAIN # ""

(***************************************************************************)
(* Properties of detectLanguage (SpecDetect: payloads in every script,     *)
(* returned untranslated).                                                 *)
(***************************************************************************)
ScriptLabels == <<"Chinese", "Russian", "Korean", "Japanese">>

\* the description+location text of ev holds a character of the script of label
HasSignature(ev, label) ==
    LET has(text) == CASE label = "Chinese" -> HasCJK(text)
                       [] label = "Russian" -> HasCyrillic(text)
                       [] label = "Korean" -> HasHangul(text)
                       [] OTHER -> HasKana(text)
    IN  has(EventDesc(ev)) \/ has(EventLoc(ev))

Signed(ev) == \E k \in 1..4 : HasSignature(ev, ScriptLabels[k])

\* what the contract of detectLanguage gives for events
ExpectedLanguage(events) ==
    IF Len(events) = 0 THEN "Unknown"
    ELSE IF \A i \in 1..Len(events) : ~Signed(events[i]) THEN "English"
    ELSE LET i == CHOOSE n \in 1..Len(events) :
                     Signed(events[n]) /\ \A m \in 1..(n - 1) : ~Signed(events[m])
             k == CHOOSE n \in 1..4 :
                     /\ HasSignature(events[i], ScriptLabels[n])
                     /\ \A m \in 1..(n - 1) : ~HasSignature(events[i], ScriptLabels[m])
         IN  ScriptLabels[k]

\* C23: the language reported for a list of events is "Unknown" for the empty
\* list, "English" when no event's description+location text holds a character
\* of one of the four scripts, and otherwise the label of the first script, in
\* the order Chinese, Russian, Korean, Japanese, found in the first event that
\* holds any.
C23_DetectLanguageContract ==
    (call.pc = "returned" /\ Has(call.result[1], "original_language"))
    => /\ call.result[1].original_language = ExpectedLanguage(call.result[1].events)
       /\ detectLanguage(call.result[1].events) = ExpectedLanguage(call.result[1].events)

\* an event without signature first, then one with kana and a Cyrillic location
C23_Witness ==
    /\ call.pc = "returned"
    /\ Has(call.result[1], "original_language")
    /\ Len(call.result[1].events) = 2
    /\ call.result[1].events[1].desc = "Delivered"
    /\ call.result[1].events[2].desc = "ja:haitatsu"
    /\ call.result[1].events[2].location = "ru:dostavleno"
    /\ call.result[1].original_language = "Russian"

(***************************************************************************)
(* Properties of the translator code (SpecCoded).                          *)
(***************************************************************************)
CarrierCodes == {"1033", "2052", "1036", "1034", "1031", "1040", "1041"}

\* C24: the code the translator is called with is the table entry of lang for
\* the 7 carrier codes and lang itself, unchanged, for every other non-empty lang.
C24_TranslatorCode ==
    call.target # ""
    => /\ call.lang \in CarrierCodes
             => call.target = CASE call.lang = "1033" -> "en"
                                [] call.lang = "2052" -> "zh-CN"
                                [] call.lang = "1036" -> "fr"
                                [] call.lang = "1034" -> "es"
                                [] call.lang = "1031" -> "de"
                                [] call.lang = "1040" -> "it"
                                [] OTHER -> "ja"
       /\ call.lang \notin CarrierCodes => call.target = call.lang

(***************************************************************************)
(* Properties of the steps of getTrackingInfo (Spec).                      *)
(***************************************************************************)
\* the status texts of the carrier's numeric codes
StatusTable ==
    (0 :> "Not Found") @@ (10 :> "In Transit") @@ (20 :> "Expired")
    @@ (30 :> "Ready for Pickup") @@ (35 :> "Undelivered") @@ (40 :> "Delivered")
    @@ (50 :> "Alert")

\* the processed payload has the legacy shape: the flat event array z0 and no
\* tracking.providers
LegacyPayload ==
    /\ call.payload # <<>>
    /\ Has(call.payload[1], "z0")
    /\ ~(Has(call.payload[1], "tracking") /\ Has(call.payload[1].tracking, "providers"))

\* the status of the result, before or after translation
StatusOf(t) == IF t.pc = "returned" THEN t.result[1].status ELSE t.norm[1].status

\* C25: the status of a result made from a legacy payload is the table entry of
\* the payload's numeric code e, and "Unknown" for a code the table lacks.
C25_LegacyStatusFromTable ==
    (LegacyPayload /\ call.pc \in {"translate", "returned"} /\ Has(call.payload[1], "e"))
    => StatusOf(call) = IF call.payload[1].e \in DOMAIN StatusTable
                        THEN StatusTable[call.payload[1].e]
                        ELSE "Unknown"

\* every code of the table, and one outside it, has been processed: here 35
C25_Witness ==
    /\ LegacyPayload
    /\ call.pc = "returned"
    /\ call.payload[1].e = 35
    /\ call.result[1].status = "Undelivered"
    /\ Len(call.result[1].events) > 0

\* C26: a call that got an answer to its first fetch goes to normalization
\* without registering only when the answer holds tracking data with events;
\* for every other answer (no accepted entry, an accepted entry without a track
\* payload, a payload without events) it calls register exactly once before it
\* returns.
C26_RegistersUnlessDataPresent ==
    (call.pc = "returned" /\ call.first \in {"absent", "empty", "modern", "legacy"})
    => Ops(call, "register") = IF call.first \in {"modern", "legacy"} THEN 0 ELSE 1

\* the call got past the sentinel and the credentials check
Started(t) == t.pc # "idle" /\ t.tracking # MOCK_TRACKING /\ ~KeyMissing(TRACK17_KEY)

\* C27: with a target language the call starts with one setLanguage, then the
\* settle delay, then the first fetch, whatever setLanguage answered (accepted,
\* rejected, network error); setLanguage is never called again, and without a
\* target language it is not called at all.
C27_SetLanguageOnceThenFetch ==
    Started(call)
    => /\ Ops(call, "setLanguage") = IF call.lang # "" THEN 1 ELSE 0
       /\ call.lang # ""
             => /\ call.calls[1] = Op("setLanguage", 0)
                /\ Len(call.calls) >= 2 => call.calls[2] = Op("delay", SETTLE_MS)
                /\ Len(call.calls) >= 3 => call.calls[3] = Op("fetch", 0)
                /\ call.pc = "changeinfo" <=> Len(call.calls) = 1
                /\ call.pc = "settle" <=> Len(call.calls) = 2
                /\ \A k \in 1..Len(call.calls) :
                      call.calls[k].op = "fetch" => k >= 3
       /\ call.lang = "" => call.calls[1] = Op("fetch", 0)

\* setLanguage failed with a network error and the call went on to a result
C27_Witness ==
    /\ Started(call)
    /\ call.pc = "returned"
    /\ call.lang = "2052"
    /\ call.langAnswer = "threw"
    /\ Ops(call, "fetch") >= 1
    /\ call.result[1].ok
    /\ Len(call.result[1].events) > 0

(***************************************************************************)
(* Properties of findOrderByTrackingNumber (SpecResolve; shop.raw is the   *)
(* order node of the GraphQL answer).                                      *)
(***************************************************************************)
\* what a package shows: its name, its tracking number, its items and quantities
PackageShape(p) ==
    [name |-> p.name, tracking_number |-> p.tracking_number,
     items |-> [k \in 1..Len(p.items) |->
                  [name |-> Str(p.items[k], "name"), quantity |-> p.items[k].quantity]]]

PackageShapes(packages) == [k \in 1..Len(packages) |-> PackageShape(packages[k])]

\* C28: the order mapped from a GraphQL node has the same sequence of packages
\* (names, tracking numbers, items and quantities), the trailing Processing
\* package included, as processOrderData gives for the REST order with the same
\* line items and fulfillments.
C28_GraphMappingHasProcessingPackage ==
    (Verified /\ shop.result[1].ok)
    => \A o \in RawOrders :
          shop.raw[1] = GraphNode(o)
          => PackageShapes(shop.result[1].order.packages)
                = PackageShapes(processOrderData(o, <<>>).order.packages)

\* C29: an ok result of findOrderByTrackingNumber holds a package with the
\* requested tracking number, and the single package of the view rendered in the
\* tracking-number path carries the requested number (the packages[0] fallback
\* of the handler is never what attaches the carrier's events).
C29_ViewPackageHasRequestedNumber ==
    /\ (shop.pc = "returned" /\ shop.tracking # "" /\ shop.result[1].ok)
          => \E k \in 1..Len(shop.result[1].order.packages) :
                shop.result[1].order.packages[k].tracking_number = shop.tracking
    /\ TrackingDone
          => /\ Len(handler.rendered[1].packages) = 1
             /\ handler.rendered[1].packages[1].tracking_number = handler.tracking

\* the requested number is that of the second package of the order found
C29_Witness ==
    /\ TrackingDone
    /\ handler.tracking = "TN2"
    /\ Len(handler.order[1].packages) = 2
    /\ handler.order[1].packages[1].tracking_number = "TN1"
    /\ handler.rendered[1].packages[1].name = "Package #2"
    /\ handler.outcome = <<"ok">>
    /\ Len(handler.rendered[1].packages[1].events) > 0

(***************************************************************************)
(* Properties of concurrent calls of getTrackingInfo (SpecPair).           *)
(***************************************************************************)
\* what holds of call i at every moment
PairCall(i) ==
    LET t == task[i]
    IN  /\ InFlight(t) => ENABLED PairStep(i)
        /\ t.pc # "raised"
        \* "already registered" counts as registered
        /\ t.regResponse = <<RegisterAlready>>
              => /\ t.regResult[1].ok
                 /\ t.pc = "returned" => t.result[1] # CouldNotRegister
        \* the error is returned for the call's own failed registration only
        /\ (t.pc = "returned" /\ t.result[1] = CouldNotRegister)
              => /\ t.regResponse # <<>>
                 /\ t.regResponse[1].throw \/ t.regResponse[1] \in RegisterRefused

\* C30: two calls running interleaved share nothing: a step of one leaves the
\* other as it was; each can always take its next step and gets closer to its
\* return with it; a call whose register is answered "already registered"
\* (because the other call registered the number first) starts the poll
\* schedule exactly as a call whose register is accepted; and a call returns
\* "could not be registered" only if its own register call failed or was
\* refused for another reason.
C30_ConcurrentCallsIndependent ==
    /\ [](\A i \in Pair : PairCall(i))
    /\ [][\A i \in Pair :
            /\ task'[i] # task[i] => \A j \in Pair \ {i} : task'[j] = task[j]
            /\ (InFlight(task[i]) /\ task'[i] # task[i]) => Rank(task'[i]) < Rank(task[i])
            /\ (task[i].pc = "register"
                /\ task'[i].regResponse \in {<<RegisterAccepted>>, <<RegisterAlready>>})
                  => /\ task'[i].pc = "delay"
                     /\ task'[i].wait = 1
                     /\ task'[i].calls = Append(task[i].calls, Op("delay", waitTimes[1]))
         ]_vars

\* both calls are polling for the same number: one registered it, the other was
\* told that it is registered already
C30_Witness ==
    /\ task[1].tracking = task[2].tracking
    /\ task[1].regResponse = <<RegisterAccepted>>
    /\ task[2].regResponse = <<RegisterAlready>>
    /\ task[1].pc = "poll"
    /\ task[2].pc = "delay"
    /\ task[1].polls = <<"none">>

(***************************************************************************)
(* Properties of the server's routes together (SpecRoutes).                *)
(***************************************************************************)
\* the order the handler has confirmed lists the number among its packages
ConfirmedNumber(tn) ==
    /\ handler.order # <<>>
    /\ \E k \in 1..Len(handler.order[1].packages) :
          handler.order[1].packages[k].tracking_number = tn

\* C31: whatever route a request came by, a getTrackingInfo call that has
\* started a carrier operation (setLanguage, fetch or register) works on a
\* number that the handler has confirmed as belonging to a known order.
C31_CarrierCallOnlyForConfirmedNumber ==
    \A i \in Tasks : Ops(task[i], "setLanguage") + Ops(task[i], "fetch")
                        + Ops(task[i], "register") > 0
                     => ConfirmedNumber(task[i].tracking)

(***************************************************************************)
(* Properties of the order+email path (SpecResolve).                       *)
(***************************************************************************)
\* the handler has found the order of an order+email request
OrderMode == handler.order # <<>> /\ handler.tracking = ""

\* C32: in the order+email path no getTrackingInfo call is made for a package
\* without tracking number or with the number "Processing": no call ever works
\* on such a number, the package's enrichment is skipped, and the rendered view
\* shows the package as mapped (same status and other fields) with events = [].
C32_UntrackablePackageSkipsEnrichment ==
    /\ \A i \in Tasks : task[i] # IdleTask => task[i].tracking \notin {"", "Processing"}
    /\ OrderMode =>
          \A i \in 1..Len(handler.order[1].packages) :
             LET pkg == handler.order[1].packages[i]
             IN  pkg.tracking_number \in {"", "Processing"}
                 => /\ task[i] = IdleTask
                    /\ handler.outcome[i] = "skipped"
                    /\ handler.pc = "done"
                          => /\ handler.rendered[1].view = "track"
                             /\ handler.rendered[1].packages[i].events = <<>>
                             /\ handler.rendered[1].packages[i].status = pkg.status
                             /\ handler.rendered[1].packages[i]
                                   = Spread(pkg, [events |-> <<>>])

\* an order is rendered with a tracked package that has events and a Processing
\* package that has none
C32_Witness ==
    /\ OrderMode
    /\ handler.pc = "done"
    /\ Len(handler.rendered[1].packages) = 2
    /\ handler.rendered[1].packages[1].events # <<>>
    /\ handler.rendered[1].packages[2].tracking_number = "Processing"
    /\ handler.rendered[1].packages[2].events = <<>>
    /\ handler.outcome = <<"ok", "skipped">>

\* a getTrackingInfo call of the request came back with ok:false
SomeLookupFailed ==
    \E i \in 1..Len(handler.outcome) : handler.outcome[i] = "failed"

\* C33: when the carrier key is not configured and a request needs the carrier
\* for one of its packages, the request ends with the error view and the message
\* "Tracking service not configured", not with the tracking view.
C33_MissingKeyEndsRequest ==
    (handler.pc = "done" /\ KeyMissing(TRACK17_KEY) /\ SomeLookupFailed)
    => handler.rendered = <<ErrorView("Tracking service not configured")>>

(***************************************************************************)
(* More properties of processOrderData (SpecResolve, order+email path).    *)
(***************************************************************************)
IsTracked(f) == Has(f, "tracking_number") /\ f.tracking_number # ""

\* the units of line item id that the order's fulfillments with a tracking
\* number ship
RECURSIVE TrackedQty(_, _)
TrackedQty(fulfillments, id) ==
    IF fulfillments = <<>> THEN 0
    ELSE (IF IsTracked(Head(fulfillments)) THEN SumQty(Head(fulfillments).line_items, id)
          ELSE 0) + TrackedQty(Tail(fulfillments), id)

\* C34: a fulfillment without tracking number yields no package (the packages
\* are those of the fulfillments that have one), and its quantities do not
\* count as fulfilled: the Processing package holds, of every line item, the
\* ordered quantity less the units shipped by fulfillments with a tracking
\* number, whenever that is positive.
C34_UntrackedFulfillmentIsDropped ==
    Mapped
    => LET pkgs == shop.result[1].order.packages
           real == SelectSeq(pkgs, IsReal)
           synthetic == SelectSeq(pkgs, IsSynthetic)
           fulfillments == shop.raw[1].fulfillments
           lines == shop.raw[1].line_items
       IN  /\ \A i \in 1..Len(fulfillments) :
                 ~IsTracked(fulfillments[i])
                 => \A k \in 1..Len(pkgs) : pkgs[k].id # fulfillments[i].id
           /\ Len(real) = Len(SelectSeq(fulfillments, IsTracked))
           /\ \A k \in 1..Len(lines) :
                 LET left == lines[k].quantity - TrackedQty(fulfillments, lines[k].id)
                 IN  left > 0 => /\ Len(synthetic) = 1
                                 /\ SumQty(synthetic[1].items, lines[k].id) = left

\* an order whose first fulfillment has no tracking number and ships a unit of A:
\* one real package, and both units of A are in the Processing package
C34_Witness ==
    /\ Mapped
    /\ Len(shop.raw[1].fulfillments) = 2
    /\ ~IsTracked(shop.raw[1].fulfillments[1])
    /\ shop.raw[1].fulfillments[1].line_items[1].id = 11
    /\ Len(shop.result[1].order.packages) = 2
    /\ IsSynthetic(shop.result[1].order.packages[2])
    /\ SumQty(shop.result[1].order.packages[2].items, 11) = 2

\* C35: in every mapped order the real packages are named "Package #1",
\* "Package #2", ... in output order, without gap or repetition, and the
\* Processing package, when there is one, is named with the next number and
\* the suffix "(Processing)".
C35_PackagesNamedConsecutively ==
    Mapped
    => LET pkgs == shop.result[1].order.packages
           real == SelectSeq(pkgs, IsReal)
       IN  /\ \A k \in 1..Len(real) : /\ pkgs[k] = real[k]
                                      /\ pkgs[k].name = PackageName(k)
           /\ \A k \in (Len(real) + 1)..Len(pkgs) :
                 pkgs[k].name = ProcessingName(Len(real) + 1)

\* C36: the items of a mapped order are the order's line items, one entry for
\* each, with name, price and the full ordered quantity, whatever quantities
\* the packages show for the same items.
C36_ItemsKeepOrderedQuantity ==
    Mapped
    => LET items == shop.result[1].order.items
           lines == shop.raw[1].line_items
       IN  /\ Len(items) = Len(lines)
           /\ \A k \in 1..Len(lines) :
                 LET at == {j \in 1..Len(items) : items[j].id = lines[k].id}
                 IN  /\ Cardinality(at) = 1
                     /\ \A j \in at : /\ items[j].quantity = lines[k].quantity
                                      /\ items[j].name = lines[k].name
                                      /\ items[j].price = lines[k].price

\* one of the two units of A is shipped and the other is in the Processing
\* package, each package showing quantity 1, and the order's items show 2
C36_Witness ==
    /\ Mapped
    /\ LET order == shop.result[1].order
       IN  /\ Len(order.packages) >= 2
           /\ SumQty(order.packages[1].items, ItemA.id) = 1
           /\ IsSynthetic(order.packages[Len(order.packages)])
           /\ SumQty(order.packages[Len(order.packages)].items, ItemA.id) = 1
           /\ SumQty(order.items, ItemA.id) = 2

(***************************************************************************)
(* More properties of the result of getTrackingInfo (Spec).                *)
(***************************************************************************)
\* the call has returned a result built from a carrier payload
FromPayload == call.pc = "returned" /\ call.payload # <<>> /\ call.result[1].ok

\* the events of a payload as the carrier sent them, first provider or flat array
SentEvents(trackData) ==
    IF Has(trackData, "tracking") /\ Has(trackData.tracking, "providers")
    THEN IF Len(trackData.tracking.providers) > 0
            /\ Has(trackData.tracking.providers[1], "events")
         THEN trackData.tracking.providers[1].events
         ELSE <<>>
    ELSE IF Has(trackData, "z0") THEN trackData.z0
    ELSE <<>>

\* the time and the text of a sent event, modern or legacy
SentTime(e) == Or(Str(e, "time_iso"), Or(Str(e, "time_utc"), Str(e, "a")))
SentText(e) == Or(Str(e, "description"), Str(e, "z"))

\* C37: the events of a result are the payload's events (first provider's, or
\* the flat array's) one for one and in the order received: event i has the
\* time and, before translation, the text of the i-th event sent; translation
\* keeps the length, the order and the times.
C37_EventSequencePreserved ==
    FromPayload
    => LET sent == SentEvents(call.payload[1])
           normalized == IF call.norm # <<>> THEN call.norm[1].events
                         ELSE call.result[1].events
           events == call.result[1].events
       IN  /\ Len(normalized) = Len(sent)
           /\ Len(events) = Len(sent)
           /\ \A i \in 1..Len(sent) :
                 /\ normalized[i].time = SentTime(sent[i])
                 /\ normalized[i].desc = SentText(sent[i])
                 /\ events[i].time = SentTime(sent[i])
                 /\ events[i].desc \in {SentText(sent[i])} \cup TranslatedTexts

\* two different events in a translated result, in the order sent
C37_Witness ==
    /\ FromPayload
    /\ call.norm # <<>>
    /\ Len(call.result[1].events) = 2
    /\ call.result[1].events[1].time = "2026-01-19 08:00"
    /\ call.result[1].events[2].time = "2026-01-20T10:00:00Z"
    /\ call.result[1].events[1].desc = "Zugestellt"
    /\ SentEvents(call.payload[1])[1].description = "zh:yiqianshou"

IsModern(trackData) == Has(trackData, "tracking") /\ Has(trackData.tracking, "providers")

\* C38: the status of a result built from a modern-shape payload is the first
\* present of latest_status.status_description, the payload's
\* status_description and latest_status.status, and "Unknown" if none is.
C38_StatusFallbackChain ==
    (FromPayload /\ IsModern(call.payload[1]))
    => LET trackData == call.payload[1]
           latest == IF Has(trackData, "latest_status") THEN trackData.latest_status
                     ELSE [none |-> TRUE]
       IN  call.result[1].status
              = Or(Str(latest, "status_description"),
                   Or(Str(trackData, "status_description"),
                      Or(Str(latest, "status"), "Unknown")))

(***************************************************************************)
(* The language "original", on both routes (SpecRoutes).                   *)
(***************************************************************************)
\* the event lists that normalization makes of the aggregator's payloads, and
\* the canned ones of the placeholder and the sentinel results
UntranslatedEvents ==
    { Normalize(TrackOf(it)[1]).events :
         it \in {a \in CatalogueItems(catalogue) : TrackOf(a) # <<>>} }
    \cup { RegisteredResult(tn).events : tn \in TrackingNumbers }
    \cup { MockResult(MOCK_TRACKING).events }

\* the event lists the handler has rendered or sent
ShownEvents ==
    IF handler.rendered = <<>> THEN {}
    ELSE IF Has(handler.rendered[1], "json")
    THEN IF Has(handler.rendered[1].json, "events")
         THEN {handler.rendered[1].json.events} ELSE {}
    ELSE IF handler.rendered[1].view = "track"
    THEN {handler.rendered[1].packages[i].events :
             i \in 1..Len(handler.rendered[1].packages)} \ {<<>>}
    ELSE {}

\* C39: in a request with lang = "original" every getTrackingInfo call runs
\* without target language: it never calls setLanguage (nor waits for it to
\* settle) and never calls the translator, and the events shown are event
\* lists as normalization makes them of a carrier payload.
C39_OriginalSkipsLanguageAndTranslation ==
    handler.lang = "original"
    => /\ \A i \in Tasks :
             /\ task[i].lang = ""
             /\ task[i].target = ""
             /\ task[i].pc \notin {"changeinfo", "settle", "translate"}
             /\ Ops(task[i], "setLanguage") = 0
             /\ task[i].norm = <<>>
       /\ ShownEvents \subseteq UntranslatedEvents

\* an order rendered in the original language, with a package whose event is in
\* the carrier's words
C39_Witness ==
    /\ handler.lang = "original"
    /\ handler.pc = "done"
    /\ OrderMode
    /\ handler.rendered[1].view = "track"
    /\ handler.rendered[1].currentLang = "original"
    /\ Len(handler.rendered[1].packages[1].events) = 1
    /\ handler.rendered[1].packages[1].events[1].desc = "zh:yiqianshou"

====
